---- MODULE Spec2Model ----
(***************************************************************************)
(* A model of the nfl_predictor pipeline: the Dataset Builder              *)
(* (src/src/data.py), the Play Efficiency Deriver's rolling pass           *)
(* (src/scripts/derive_epa_sr.py), the Prediction CLI (src/src/predict.py) *)
(* and the prediction part of the HTTP API (src/api/utils.py,              *)
(* src/api/main.py).                                                       *)
(*                                                                         *)
(* Tables (pandas DataFrames) are sequences of records.  A missing value   *)
(* (numpy NaN) of an integer column is the value NaN; a column holding     *)
(* means or probabilities holds exact fractions [num, den], the missing    *)
(* value being the fraction with den = 0.  Team codes are the integers     *)
(* 1..NumTeams, ordered as the codes sort alphabetically.  Elo ratings are *)
(* fixed-point numbers in hundredths of a rating point.                    *)
(***************************************************************************)
EXTENDS Integers, Sequences, FiniteSets, TLC

VARIABLES
    schedules,   \* the table nfl.import_schedules serves (one row per game)
    market,      \* data/market_odds.csv
    weather,     \* data/weather.csv
    qb,          \* data/qb_status.csv
    epa,         \* data/team_epa.csv
    call,        \* the build_dataset call in flight: its arguments and result
    teamwk,      \* input table of a rolling pass (team, season, week, raw)
    rolled,      \* result of the last rolling pass
    picks_df,    \* a pick table handed to the top-K / coin-flip summaries
    summary,     \* result of the last top-K / coin-flip summary
    request,     \* the season/week a prediction is requested for
    cli,         \* outcome of the last Prediction CLI run
    api,         \* outcome of the last API call (compute_week_picks, predict)
    report,      \* result of the last backtest call
    folds,       \* a dataset's seasons and the folds last generated from it
    lastrun,     \* the last run of each collector: what it fetched and did
    pipeline,    \* the weekly orchestrator: environment, stages, exit codes
    artifact,    \* the Training CLI: calibration toggle, writes to MODEL_PATH
    ensemble,    \* the tuned weights and the ensemble build_ensemble built
    sim,         \* arguments and result of the last simulate_bets call
    mdd,         \* argument and result of the last max_drawdown call
    conv,        \* a moneyline and what the odds conversions made of it
    bins,        \* predictions and the calibration table made from them
    betrun,      \* a run of the betting simulation CLI: picks, bets, equity
    trial,       \* a trial of the Tuning CLI: suggested parameters, ensemble
    scored       \* a test season of the backtest: picks and fold metrics

vars == <<schedules, market, weather, qb, epa, call, teamwk, rolled,
          picks_df, summary, request, cli, api,
          report, folds, lastrun, pipeline, artifact, ensemble, sim, mdd,
          conv, bins, betrun, trial, scored>>

dataVars    == <<schedules, market, weather, qb, epa, call>>
rollVars    == <<teamwk, rolled>>
splitVars   == <<picks_df, summary>>
predictVars == <<request, cli, api>>
evalVars    == <<report, folds>>
pipeVars    == <<lastrun, pipeline>>
modelVars   == <<artifact, ensemble>>
betVars     == <<sim, mdd>>
auxVars     == <<conv, bins, betrun, trial, scored>>
toolVars    == <<evalVars, pipeVars, modelVars, betVars, auxVars>>

\* the parts of the state a specification leaves unused
CoreIdle ==
    /\ teamwk = <<>> /\ rolled = <<>> /\ picks_df = <<>> /\ summary = <<>>
    /\ request = <<>> /\ cli = <<>> /\ api = <<>>
EvalIdle  == report = <<>> /\ folds = <<>>
PipeIdle  == lastrun = <<>> /\ pipeline = <<>>
ModelIdle == artifact = <<>> /\ ensemble = <<>>
BetIdle   == sim = <<>> /\ mdd = <<>>
AuxIdle   ==
    conv = <<>> /\ bins = <<>> /\ betrun = <<>> /\ trial = <<>> /\ scored = <<>>
ToolsIdle == EvalIdle /\ PipeIdle /\ ModelIdle /\ BetIdle /\ AuxIdle

(***************************************************************************)
(* Bounds of the model.                                                    *)
(***************************************************************************)
NumTeams    == 2    \* team codes 1..NumTeams
MaxGames    == 3    \* games in the schedule
MaxScore    == 1    \* final scores 0..MaxScore
MaxWindow   == 2    \* rolling windows 1..MaxWindow
MaxFileRows == 2    \* rows of a side-table file
MaxRollRows == 3    \* rows of a table handed to a rolling pass
MaxPicks    == 3    \* picks of a pick list handed to the summaries
MaxTopK     == 3    \* top_k of a summary request, 0..MaxTopK

Teams == 1..NumTeams

(***************************************************************************)
(* Missing values and exact fractions.                                     *)
(***************************************************************************)
NaN == -99999

Frac(n, d) == [num |-> n, den |-> d]
NaNF       == Frac(0, 0)
IsNaNF(f)  == f.den = 0
\* equality of two fraction cells, two missing cells being equal
EqF(a, b)  == IF IsNaNF(a) \/ IsNaNF(b) THEN IsNaNF(a) /\ IsNaNF(b)
              ELSE a.num * b.den = b.num * a.den
\* a < b on defined fractions (denominators are positive)
LtF(a, b)  == a.num * b.den < b.num * a.den
LeF(a, b)  == a.num * b.den <= b.num * a.den

Range(s) == {s[i] : i \in DOMAIN s}

\* DataFrame.copy(): the same table, with every row evaluated
copy(df) == SelectSeq(df, LAMBDA r : TRUE)

RECURSIVE Flatten(_)
Flatten(ss) == IF ss = <<>> THEN <<>> ELSE Head(ss) \o Flatten(Tail(ss))

RECURSIVE SumSeq(_)
SumSeq(s) == IF s = <<>> THEN 0 ELSE Head(s) + SumSeq(Tail(s))

\* the elements of a set as a sequence, in some order
RECURSIVE SetToSeq(_)
SetToSeq(S) ==
    IF S = {} THEN <<>>
    ELSE LET m == CHOOSE x \in S : TRUE IN <<m>> \o SetToSeq(S \ {m})


(***************************************************************************)
(* Rolling features: add_rolling_features (src/src/data.py) and            *)
(* _rolling_shifted (src/scripts/derive_epa_sr.py).                        *)
(***************************************************************************)
Season(g) == (g - 1) \div 2 + 1      \* two weeks a season: game slot g is
Week(g)   == ((g - 1) % 2) + 1        \* played in week Week(g) of Season(g)

\* rank of the sort columns ["team","season","week"]
TeamSeasonWeek(r) == (r.team * 100 + r.season) * 100 + r.week

\* a rolling pass without the shift: the window ends at the game itself
shift_none(s) == s

\* df.sort_values(["team","season","week"])
SortByTeamSeasonWeek(df) ==
    SortSeq(df, LAMBDA a, b : TeamSeasonWeek(a) < TeamSeasonWeek(b))

\* Series.shift(1): every value moves one position down, the first is missing
shift(s) == [i \in DOMAIN s |-> IF i = 1 THEN NaN ELSE s[i - 1]]

\* Series.rolling(n, min_periods=1).mean(): the mean of the values present
\* among the last n positions, missing when none of them is present
rolling_mean(s, n) ==
    [i \in DOMAIN s |->
        LET w == {j \in DOMAIN s : i - n < j /\ j <= i /\ s[j] # NaN}
            v == SetToSeq(w)
        IN  IF w = {} THEN NaNF
            ELSE Frac(SumSeq([x \in DOMAIN v |-> s[v[x]]]), Cardinality(w))]

\* grp[col].apply(lambda s: s.shift(1).rolling(n, min_periods=1).mean()) on a
\* frame grouped by team: the result column, aligned with the rows of df
roll(df, col, n) ==
    [i \in DOMAIN df |->
        LET grp == SelectSeq(df, LAMBDA r : r.team = df[i].team)
            s   == [j \in DOMAIN grp |-> grp[j][col]]
            k   == Cardinality({j \in 1..i : df[j].team = df[i].team})
        IN  rolling_mean(shift(s), n)[k]]

add_rolling_features(df0, n) ==
    LET df == SortByTeamSeasonWeek(df0)
        pf == roll(df, "points_for", n)
        pa == roll(df, "points_against", n)
    IN  copy([i \in DOMAIN df |->
            [team_pf_roll |-> pf[i], team_pa_roll |-> pa[i]] @@ df[i]])

_rolling_shifted(df0, window) ==
    LET df  == SortByTeamSeasonWeek(df0)
        off == roll(df, "off_epa_mean", window)
        dff == roll(df, "def_epa_mean", window)
    IN  copy([i \in DOMAIN df |->
            [off_epa_roll |-> off[i], def_epa_roll |-> dff[i]] @@ df[i]])

\* rank of the columns (season, week, team), the row order of a table that
\* comes out of a merge on these keys
SeasonWeekTeam(r) == (r.season * 100 + r.week) * 100 + r.team
SortBySeasonWeekTeam(df) ==
    SortSeq(df, LAMBDA a, b : SeasonWeekTeam(a) < SeasonWeekTeam(b))

\* the team-week tables a rolling pass is run on: at most one row per team
\* and game slot, at most MaxRollRows rows, two raw statistics per row
TeamWeekKeys == Teams \X (1..MaxGames)
TeamWeekRow(k, v) ==
    [team |-> k[1], season |-> Season(k[2]), week |-> Week(k[2]),
     points_for |-> v[1], points_against |-> v[2],
     off_epa_mean |-> v[1], def_epa_mean |-> v[2]]
TeamWeekTables ==
    UNION { { SortBySeasonWeekTeam(SetToSeq({TeamWeekRow(k, f[k]) : k \in K})) :
                f \in [K -> (0..MaxScore) \X (0..MaxScore)] } :
            K \in {S \in SUBSET TeamWeekKeys : Cardinality(S) <= MaxRollRows} }

NoRoll == [fn |-> "none", n |-> 0, rows |-> <<>>]

AddRollingFeatures(n) ==
    /\ rolled' = [fn |-> "add_rolling_features", n |-> n,
                  rows |-> add_rolling_features(teamwk, n)]
    /\ UNCHANGED <<teamwk, dataVars, splitVars, predictVars, toolVars>>

RollingShifted(n) ==
    /\ rolled' = [fn |-> "_rolling_shifted", n |-> n,
                  rows |-> _rolling_shifted(teamwk, n)]
    /\ UNCHANGED <<teamwk, dataVars, splitVars, predictVars, toolVars>>


(***************************************************************************)
(* The inputs of the Dataset Builder: the schedule and the four optional   *)
(* side-table files.                                                       *)
(***************************************************************************)
Fixtures == {f \in Teams \X Teams : f[1] # f[2]}     \* <<home, away>>
Scores   == (0..MaxScore) \X (0..MaxScore)           \* <<home, away>>
NoScore  == <<NaN, NaN>>                             \* game not played yet

ScheduleRow(g, f, sc) ==
    [game_id |-> g, season |-> Season(g), week |-> Week(g), gameday |-> g,
     home_team |-> f[1], away_team |-> f[2],
     home_score |-> sc[1], away_score |-> sc[2]]

\* schedules of 1..MaxGames games, one per game slot, of which the earliest
\* are played and the rest are still to come
SchedulesOfLen(L) ==
    { [g \in 1..L |-> ScheduleRow(g, f[g], sc[g])] :
        f \in [1..L -> Fixtures],
        sc \in { x \in [1..L -> Scores \cup {NoScore}] :
                   \A g \in 1..(L - 1) : x[g] = NoScore => x[g + 1] = NoScore } }
Schedules == UNION {SchedulesOfLen(L) : L \in 1..MaxGames}

\* Config.USE_MARKET, USE_WEATHER, USE_QB, USE_EPA
USE_MARKET  == TRUE
USE_WEATHER == TRUE
USE_QB      == TRUE
USE_EPA     == TRUE

\* a side-table file is absent, unreadable, empty (header only) or holds rows
SeqsUpTo(S, n) == UNION {[1..k -> S] : k \in 1..n}
FileStates(Rows) ==
    {[status |-> st, rows |-> <<>>] : st \in {"absent", "unreadable", "empty"}}
    \cup {[status |-> "ok", rows |-> r] : r \in SeqsUpTo(Rows, MaxFileRows)}
AbsentFile == [status |-> "absent", rows |-> <<>>]

\* closing lines: <<close_spread_home, ml_home, ml_away>>
Lines == {<<-3, -150, 130>>, <<3, 130, -150>>}
MarketRows(G) ==
    {[game_id |-> g, close_spread_home |-> l[1], ml_home |-> l[2],
      ml_away |-> l[3], total_points |-> 44] : g \in G, l \in Lines}
WeatherRows(G) ==
    {[game_id |-> g, wind_mph |-> 12, temp_f |-> 40, is_precip |-> 1,
      is_outdoor |-> 1] : g \in G}
QbRows(G) ==
    {[season |-> Season(g), week |-> Week(g), team |-> t,
      qb_changed |-> 1, starters_out |-> 2] : g \in G, t \in Teams}
EpaRows(G) ==
    {[season |-> Season(g), week |-> Week(g), team |-> t,
      off_epa_roll |-> 3, def_epa_roll |-> 1] : g \in G, t \in Teams}

(***************************************************************************)
(* build_dataset (src/src/data.py).                                        *)
(***************************************************************************)
\* pd.read_csv: raises on a file that is absent or cannot be read; a file
\* with a header and no rows gives an empty frame
Raised == <<[raised |-> TRUE]>>
read_csv(file) ==
    IF file.status = "ok" THEN file.rows
    ELSE IF file.status = "empty" THEN <<>>
    ELSE Raised

\* a loader that lets the exception of read_csv escape
_load_optional_csv_uncaught(file) == read_csv(file)

\* pd.read_csv inside try/except: any failure gives an empty frame
_load_optional_csv(file) ==
    IF read_csv(file) = Raised THEN <<>> ELSE read_csv(file)

\* American odds -> raw implied probability
_american_to_implied_prob(odds) ==
    IF odds = NaN THEN NaNF
    ELSE IF odds > 0 THEN Frac(100, odds + 100)
    ELSE IF odds < 0 THEN Frac(-odds, (-odds) + 100)
    ELSE NaNF

\* a > b on values that may be missing: false when either is missing
Gt(a, b) == a # NaN /\ b # NaN /\ a > b
Neg(a)   == IF a = NaN THEN NaN ELSE -a
Sub(a, b) == IF a = NaN \/ b = NaN THEN NaN ELSE a - b

load_games(sched0, seasons) ==
    LET sched == SelectSeq(sched0, LAMBDA r : r.season \in seasons)
    IN  copy([i \in DOMAIN sched |->
            [home_win |-> IF Gt(sched[i].home_score, sched[i].away_score)
                          THEN 1 ELSE 0] @@ sched[i]])

Restrict(r, cols) == [c \in cols |-> r[c]]

\* left.merge(right[on + cols], on=on, how="left")
merge_left(left, right, on, cols) ==
    Flatten([i \in DOMAIN left |->
        LET m == SelectSeq(right, LAMBDA r : \A k \in on : r[k] = left[i][k])
        IN  IF m = <<>> THEN <<left[i] @@ [c \in cols |-> NaN]>>
            ELSE [j \in DOMAIN m |-> left[i] @@ Restrict(m[j], cols)]])

\* the schedule as one row per team and game (lines 243-262)
sched_team_rows(sched) ==
    LET st_home == [i \in DOMAIN sched |->
            [game_id |-> sched[i].game_id, season |-> sched[i].season,
             week |-> sched[i].week, team |-> sched[i].home_team,
             opponent |-> sched[i].away_team, home_away |-> "HOME",
             points_for |-> sched[i].home_score,
             points_against |-> sched[i].away_score]]
        st_away == [i \in DOMAIN sched |->
            [game_id |-> sched[i].game_id, season |-> sched[i].season,
             week |-> sched[i].week, team |-> sched[i].away_team,
             opponent |-> sched[i].home_team, home_away |-> "AWAY",
             points_for |-> sched[i].away_score,
             points_against |-> sched[i].home_score]]
    IN  st_home \o st_away

\* the market block (lines 276-306)
merge_market(team_side, file) ==
    LET m == _load_optional_csv(file) IN
    IF ~USE_MARKET \/ m = <<>> THEN team_side
    ELSE LET ts == merge_left(team_side, m, {"game_id"},
                     {"close_spread_home", "ml_home", "ml_away", "total_points"})
         IN  copy([i \in DOMAIN ts |->
                LET r    == ts[i]
                    home == r.home_away = "HOME"
                    sp   == IF home THEN r.close_spread_home
                            ELSE Neg(r.close_spread_home)
                IN  [team_spread |-> sp,
                     opp_spread_tmp |-> Neg(sp),
                     team_ml_implied |->
                        IF home THEN _american_to_implied_prob(r.ml_home)
                        ELSE _american_to_implied_prob(r.ml_away),
                     opp_ml_implied_tmp |->
                        IF home THEN _american_to_implied_prob(r.ml_away)
                        ELSE _american_to_implied_prob(r.ml_home)] @@ r])

\* the weather block (lines 309-319)
merge_weather(team_side, file) ==
    LET w == _load_optional_csv(file) IN
    IF ~USE_WEATHER \/ w = <<>> THEN team_side
    ELSE merge_left(team_side, w, {"game_id"},
                    {"wind_mph", "temp_f", "is_precip", "is_outdoor"})

\* the QB block (lines 322-331)
merge_qb(team_side, file) ==
    LET q == _load_optional_csv(file) IN
    IF ~USE_QB \/ q = <<>> THEN team_side
    ELSE merge_left(team_side, q, {"season", "week", "team"},
                    {"qb_changed", "starters_out"})

\* the EPA block (lines 334-343)
merge_epa(team_side, file) ==
    LET e == _load_optional_csv(file) IN
    IF ~USE_EPA \/ e = <<>> THEN team_side
    ELSE merge_left(team_side, e, {"season", "week", "team"},
                    {"off_epa_roll", "def_epa_roll"})

\* "Guarantee one row per (game_id, team)": group by the key columns and sum
\* the numeric columns; a sum skips missing values, every other column is
\* not selected and is gone afterwards (lines 346-356)
GroupKeys == {"game_id", "team", "season", "week", "opponent", "home_away"}
NumCols   == {"points_for", "points_against"}
groupby_sum(team_side) ==
    LET keys == {Restrict(team_side[i], GroupKeys) : i \in DOMAIN team_side}
        total(k, c) ==
            SumSeq([i \in DOMAIN team_side |->
                IF Restrict(team_side[i], GroupKeys) = k /\ team_side[i][c] # NaN
                THEN team_side[i][c] ELSE 0])
    IN  SetToSeq({k @@ [c \in NumCols |-> total(k, c)] : k \in keys})


(***************************************************************************)
(* The Elo pass.  Ratings are integers in hundredths of a point; the       *)
(* expected score is a fixed-point number scaled by EloScale.              *)
(***************************************************************************)
K        == 20
base     == 1500
Centi    == 100
EloScale == 10000

\* a / b rounded to the nearest integer (b > 0)
RoundDiv(a, b) == (2 * a + b) \div (2 * b)

\* 10 ** (d / 400) for a rating difference d in hundredths of a point, scaled
\* by EloScale: exp(y) for y = d * ln(10) / 400, by its Taylor polynomial of
\* degree 6 (|y| stays below 1 for the ratings of a bounded schedule)
RECURSIVE ExpTerms(_, _, _)
ExpTerms(y, k, t) ==
    IF k > 6 THEN 0
    ELSE LET tk == RoundDiv(t * y, EloScale * k) IN tk + ExpTerms(y, k + 1, tk)
Pow10(d) ==
    LET y == RoundDiv(d * 57565, 100000)      \* ln(10) / 4 = 0.57565
    IN  EloScale + ExpTerms(y, 1, EloScale)

\* Ea = 1.0 / (1 + 10 ** ((Rb - Ra)/400)), scaled by EloScale
Expected(Ra, Rb) == RoundDiv(EloScale * EloScale, EloScale + Pow10(Rb - Ra))

\* the rating the opponent is looked up with: elo.get(opp, base), that is
\* whatever the dictionary holds for the opponent when the row is reached
OpponentRating(elo, r) == elo[r.opponent]

\* win = 1.0 if r["points_for"] > r["points_against"] else 0.0
elo_win(r) == IF Gt(r.points_for, r.points_against) THEN 1 ELSE 0

RECURSIVE EloPass(_, _, _)
EloPass(df, i, elo) ==
    IF i > Len(df) THEN <<>>
    ELSE LET r      == df[i]
             Ra     == elo[r.team]
             Rb     == OpponentRating(elo, r)
             Ea     == Expected(Ra, Rb)
             win    == elo_win(r)
             Ra_new == Ra + RoundDiv(K * Centi * (win * EloScale - Ea), EloScale)
         IN  <<[team_elo |-> Ra_new] @@ r>>
             \o EloPass(df, i + 1, [elo EXCEPT ![r.team] = Ra_new])

_simple_elo(df) ==
    EloPass(SortByTeamSeasonWeek(df), 1, [t \in Teams |-> base * Centi])

\* the self-merge that attaches opp_elo, and elo_diff (lines 378-384)
merge_opp_elo(team_side) ==
    Flatten([i \in DOMAIN team_side |->
        LET l == team_side[i]
            m == SelectSeq(team_side, LAMBDA q :
                     q.game_id = l.game_id /\ q.team = l.opponent)
        IN  IF m = <<>> THEN <<[opp_elo |-> NaN, elo_diff |-> NaN] @@ l>>
            ELSE [j \in DOMAIN m |->
                    [opp_elo |-> m[j].team_elo,
                     elo_diff |-> Sub(l.team_elo, m[j].team_elo)] @@ l]])

(***************************************************************************)
(* make_matchups: the stacked home and away views.                         *)
(***************************************************************************)
GameTeam(r) == r.game_id * 100 + r.team

\* sort_values(["game_id","team"]).drop_duplicates(subset=["game_id"], keep="first")
first_per_game(df0) ==
    LET df == SortSeq(df0, LAMBDA a, b : GameTeam(a) < GameTeam(b))
        keep == {i \in DOMAIN df : \A j \in 1..(i - 1) : df[j].game_id # df[i].game_id}
    IN  [k \in 1..Cardinality(keep) |->
            df[CHOOSE i \in keep : Cardinality({j \in keep : j < i}) = k - 1]]

\* src.get(col, np.nan) on the side of the merged frame that team_from names
Get(row, col) == IF col \in DOMAIN row THEN row[col] ELSE NaN
\* the same for a column of fractions
GetF(row, col) == IF col \in DOMAIN row THEN row[col] ELSE NaNF
\* an integer cell as a cell of a float column
AsF(x) == IF x = NaN THEN NaNF ELSE Frac(x, 1)

\* an away view that repeats the home target
away_win_same(home_win) == home_win

\* the away view takes 1 - home_win
away_win(home_win) == 1 - home_win

\* build_row: src is a row of the merged frame, a pair of the home row (the
\* columns without suffix) and the away row (the columns with suffix _opp);
\* weather columns are read without suffix in either view
build_row(src, home_flag) ==
    LET tm  == IF home_flag = 1 THEN src.home ELSE src.away
        op  == IF home_flag = 1 THEN src.away ELSE src.home
    IN  [game_id          |-> src.home.game_id,
         season           |-> src.home.season,
         week             |-> src.home.week,
         home             |-> home_flag,
         points_for       |-> tm.points_for,
         points_against   |-> tm.points_against,
         team_pf_roll     |-> tm.team_pf_roll,
         team_pa_roll     |-> tm.team_pa_roll,
         team_elo         |-> tm.team_elo,
         elo_diff         |-> tm.elo_diff,
         team_spread      |-> AsF(Get(tm, "team_spread")),
         team_ml_implied  |-> GetF(tm, "team_ml_implied"),
         total_points     |-> AsF(Get(tm, "total_points")),
         wind_mph         |-> AsF(Get(src.home, "wind_mph")),
         qb_changed       |-> AsF(Get(tm, "qb_changed")),
         off_epa_roll     |-> AsF(Get(tm, "off_epa_roll")),
         opp_pf_roll      |-> op.team_pf_roll,
         opp_pa_roll      |-> op.team_pa_roll,
         opp_elo          |-> op.team_elo,
         opp_spread       |-> AsF(Get(op, "team_spread")),
         opp_ml_implied   |-> GetF(op, "team_ml_implied"),
         opp_off_epa_roll |-> AsF(Get(op, "off_epa_roll")),
         team_win         |-> IF home_flag = 1 THEN src.home_win
                              ELSE away_win(src.home_win),
         home_team        |-> src.home_team,
         away_team        |-> src.away_team]

make_matchups(team_side, sched) ==
    LET home == first_per_game(SelectSeq(team_side, LAMBDA r : r.home_away = "HOME"))
        away == first_per_game(SelectSeq(team_side, LAMBDA r : r.home_away # "HOME"))
        \* home.merge(away, on=["game_id","season","week"]), then the left
        \* merge with the schedule's home_win, home_team, away_team
        merged == Flatten([i \in DOMAIN home |->
            LET a == SelectSeq(away, LAMBDA r :
                         /\ r.game_id = home[i].game_id
                         /\ r.season = home[i].season
                         /\ r.week = home[i].week)
                g == SelectSeq(sched, LAMBDA r : r.game_id = home[i].game_id)
            IN  Flatten([j \in DOMAIN a |->
                    [k \in DOMAIN g |->
                        [home |-> home[i], away |-> a[j],
                         home_win |-> g[k].home_win,
                         home_team |-> g[k].home_team,
                         away_team |-> g[k].away_team]]])])
        home_view == copy([i \in DOMAIN merged |-> build_row(merged[i], 1)])
        away_view == copy([i \in DOMAIN merged |-> build_row(merged[i], 0)])
    IN  home_view \o away_view


(***************************************************************************)
(* Imputation and the whole of build_dataset.                              *)
(***************************************************************************)
\* Series.median(): the middle of the values present, the mean of the two
\* middle values when their number is even, missing when there is none
median(vals) ==
    LET d   == SelectSeq(vals, LAMBDA v : ~IsNaNF(v))
        srt == SortSeq(d, LAMBDA x, y : LtF(x, y))
        c   == Len(srt)
        lo  == srt[c \div 2]
        hi  == srt[(c \div 2) + 1]
    IN  IF c = 0 THEN NaNF
        ELSE IF c % 2 = 1 THEN srt[(c + 1) \div 2]
        ELSE Frac(lo.num * hi.den + hi.num * lo.den, 2 * lo.den * hi.den)

\* the columns of the dataset that the imputation loop visits
FillCols == {"team_pf_roll", "team_pa_roll", "opp_pf_roll", "opp_pa_roll",
             "off_epa_roll", "opp_off_epa_roll", "team_spread", "opp_spread",
             "team_ml_implied", "opp_ml_implied", "total_points", "wind_mph",
             "qb_changed"}

\* the imputation loop (lines 402-407): every visited column has its missing
\* cells set to the column's median, unless the median itself is missing
fillna(ds) ==
    LET med == [c \in FillCols |-> median([i \in DOMAIN ds |-> ds[i][c]])]
    IN  copy([i \in DOMAIN ds |->
            [c \in DOMAIN ds[i] |->
                IF c \in FillCols /\ IsNaNF(ds[i][c]) /\ ~IsNaNF(med[c])
                THEN med[c] ELSE ds[i][c]]])

\* the team-side rows of build_dataset after the step that guarantees one
\* row per (game_id, team) (lines 241-356), the rows the Elo pass visits
team_side_rows(src, seasons) ==
    LET sched == load_games(src.schedules, seasons)
        ts0   == sched_team_rows(sched)
        ts1   == merge_market(ts0, src.market)
        ts2   == merge_weather(ts1, src.weather)
        ts3   == merge_qb(ts2, src.qb)
        ts4   == merge_epa(ts3, src.epa)
    IN  groupby_sum(ts4)

\* build_dataset on a source src = [schedules, market, weather, qb, epa].
\* The weekly player statistics (passing and rushing yards, turnovers) and the
\* game date take no part in the columns modelled here and are left out.
build_dataset(src, seasons, rolling_n) ==
    LET sched == load_games(src.schedules, seasons)
        ts5   == team_side_rows(src, seasons)
        ts6   == merge_opp_elo(_simple_elo(ts5))
        ts7   == add_rolling_features(ts6, rolling_n)
        ds    == fillna(make_matchups(ts7, sched))
    IN  SelectSeq(ds, LAMBDA r : r.team_win # NaN)

\* build_dataset raises when one of its loaders does
build_raises(src) ==
    \E f \in {src.market, src.weather, src.qb, src.epa} :
        _load_optional_csv(f) = Raised

\* what the builder reads when it runs
Source == [schedules |-> schedules, market |-> market, weather |-> weather,
           qb |-> qb, epa |-> epa]

\* Config.SEASONS, the seasons the schedule source has games for, and
\* Config.ROLLING_N, the window every caller passes
SEASONS   == 1..Season(MaxGames)
ROLLING_N == 5

Idle == [status |-> "idle", seasons |-> {}, rolling_n |-> 0, rows |-> <<>>]

\* one run of build_dataset(seasons=Config.SEASONS, rolling_n=Config.ROLLING_N);
\* its result lives as long as the calling process
BuildDataset ==
    /\ call' = IF build_raises(Source)
               THEN [status |-> "raised", seasons |-> SEASONS,
                     rolling_n |-> ROLLING_N, rows |-> <<>>]
               ELSE [status |-> "returned", seasons |-> SEASONS,
                     rolling_n |-> ROLLING_N,
                     rows |-> build_dataset(Source, SEASONS, ROLLING_N)]
    /\ UNCHANGED <<schedules, market, weather, qb, epa,
                   rollVars, splitVars, predictVars, toolVars>>

\* the schedule source publishes the final score of the earliest game that
\* has none; a dataset built before is the result of a finished process
RecordScore(sc) ==
    /\ \E g \in DOMAIN schedules :
          /\ schedules[g].home_score = NaN
          /\ \A h \in 1..(g - 1) : schedules[h].home_score # NaN
          /\ schedules' = [schedules EXCEPT ![g].home_score = sc[1],
                                            ![g].away_score = sc[2]]
    /\ call' = Idle
    /\ UNCHANGED <<market, weather, qb, epa, rollVars, splitVars, predictVars, toolVars>>

Unplayed(s) == \A g \in DOMAIN s : s[g].home_score = NaN

\* the side-table files of the schedule-centred specification: all absent,
\* or each holding a row for the first game, which the market file (keyed by
\* game) and the QB file (keyed by team and week) repeat 1..MaxFileRows times
Copies(row, k) == [status |-> "ok", rows |-> [i \in 1..k |-> row]]
SideFilesSmall ==
    { [market |-> AbsentFile, weather |-> AbsentFile, qb |-> AbsentFile,
       epa |-> AbsentFile] }
    \cup
    { [market  |-> Copies(m, k), weather |-> Copies(w, 1),
       qb      |-> Copies(q, k), epa     |-> Copies(e, 1)] :
        k \in 1..MaxFileRows,
        m \in MarketRows({1}), w \in WeatherRows({1}),
        q \in {x \in QbRows({1}) : x.team = 1},
        e \in {x \in EpaRows({1}) : x.team = 1} }

InitData ==
    /\ schedules \in {x \in Schedules : Unplayed(x)}
    /\ \E f \in SideFilesSmall :
          market = f.market /\ weather = f.weather /\ qb = f.qb /\ epa = f.epa
    /\ call = Idle
    /\ teamwk = <<>> /\ rolled = NoRoll
    /\ picks_df = <<>> /\ summary = <<>>
    /\ request = <<>> /\ cli = <<>> /\ api = <<>>
    /\ ToolsIdle

NextData ==
    \/ \E sc \in Scores : RecordScore(sc)
    \/ BuildDataset

Spec == InitData /\ [][NextData]_vars

\* the side-table-centred specification: one scheduled game, every state of
\* every side-table file (rows for the game, or for its home team)
InitSide ==
    /\ schedules = <<ScheduleRow(1, <<1, 2>>, NoScore)>>
    /\ market  \in FileStates(MarketRows({1}))
    /\ weather \in FileStates(WeatherRows({1}))
    /\ qb      \in FileStates({x \in QbRows({1}) : x.team = 1})
    /\ epa     \in FileStates({x \in EpaRows({1}) : x.team = 1})
    /\ call = Idle
    /\ teamwk = <<>> /\ rolled = NoRoll
    /\ picks_df = <<>> /\ summary = <<>>
    /\ request = <<>> /\ cli = <<>> /\ api = <<>>
    /\ ToolsIdle

SpecSide == InitSide /\ [][NextData]_vars


(***************************************************************************)
(* Specification of the rolling passes: a bounded team-week table is drawn *)
(* and either pass is applied to it.                                       *)
(***************************************************************************)
InitRoll ==
    /\ teamwk \in TeamWeekTables
    /\ rolled = NoRoll
    /\ schedules = <<>> /\ market = <<>> /\ weather = <<>> /\ qb = <<>>
    /\ epa = <<>> /\ call = <<>> /\ picks_df = <<>> /\ summary = <<>>
    /\ request = <<>> /\ cli = <<>> /\ api = <<>>
    /\ ToolsIdle

NextRoll ==
    \/ \E n \in 1..MaxWindow : AddRollingFeatures(n)
    \/ \E n \in 1..MaxWindow : RollingShifted(n)

SpecRoll == InitRoll /\ [][NextRoll]_vars


(***************************************************************************)
(* Probabilities are float64.  The doubles that occur are sums, differences *)
(* and quotients of doubles nearest to hundredths, so a double is written   *)
(* [c, e]: its exact value is c/100 + e * u with u = 2^-60 / 25, that is    *)
(* c * 2^58 + e in units of u.  Every double in [2^-7, 2) is a whole number *)
(* of units, and each operation rounds its exact result to the nearest      *)
(* double, ties to even, as IEEE-754 does.                                  *)
(***************************************************************************)
RECURSIVE Pow2Mod(_, _)
Pow2Mod(n, m) == IF n = 0 THEN 1 % m ELSE (2 * Pow2Mod(n - 1, m)) % m

\* the distance in units between neighbouring doubles of magnitude c/100
Ulp(c) ==
    IF c >= 100 THEN 6400 ELSE IF c >= 50 THEN 3200 ELSE IF c >= 25 THEN 1600
    ELSE IF c >= 13 THEN 800 ELSE IF c >= 7 THEN 400 ELSE IF c >= 4 THEN 200
    ELSE IF c >= 2 THEN 100 ELSE 50

\* the offset e of the double nearest to c * 2^58 + n / k units, for c > 0
RoundUp(c, n, k) ==
    LET s  == Ulp(c)
        m  == (c * Pow2Mod(58, 2 * s) * k + n) % (2 * s * k)
        r  == m % (s * k)
        up == 2 * r > s * k \/ (2 * r = s * k /\ m >= s * k)
    IN  IF up THEN (n - r + s * k) \div k ELSE (n - r) \div k

\* the same for either sign; a result with c = 0 is exact
Round(c, n, k) ==
    IF c = 0 THEN n \div k
    ELSE IF c < 0 THEN -RoundUp(-c, -n, k)
    ELSE RoundUp(c, n, k)

\* the double that the decimal literal c/100 denotes
D(c) == [c |-> c, e |-> Round(c, 0, 1)]
NaND == [c |-> NaN, e |-> 0]
IsNaND(x) == x.c = NaN

fadd(x, y) == [c |-> x.c + y.c, e |-> Round(x.c + y.c, x.e + y.e, 1)]
fsub(x, y) == [c |-> x.c - y.c, e |-> Round(x.c - y.c, x.e - y.e, 1)]
fabs(x)    == IF x.c < 0 \/ (x.c = 0 /\ x.e < 0)
              THEN [c |-> -x.c, e |-> -x.e] ELSE x
flt(x, y)  == x.c < y.c \/ (x.c = y.c /\ x.e < y.e)
fle(x, y)  == x.c < y.c \/ (x.c = y.c /\ x.e <= y.e)

\* x / y for y > 0 whose quotient is near the hundredth t/100:
\* (x.c*P + x.e) / (y.c*P + y.e) = t*P + (100*x.e - t*y.e) / y.c units
fdiv(x, y) ==
    LET t == (100 * x.c) \div y.c
    IN  [c |-> t, e |-> Round(t, 100 * x.e - t * y.e, y.c)]


(***************************************************************************)
(* Picks and their summaries: the Prediction CLI (src/src/predict.py) and  *)
(* the API (api/utils.py, api/main.py).                                    *)
(***************************************************************************)
Min(S) == CHOOSE x \in S : \A y \in S : x <= y
Max0(a, b) == IF a >= b THEN a ELSE b

\* a pandas DataFrame and a Python list of dicts
Frame(rows)  == [kind |-> "frame", rows |-> rows]
PyList(rows) == [kind |-> "list", rows |-> rows]

\* the tables that carry the same rows as df in another order
Reorderings(df) ==
    {[i \in DOMAIN df |-> df[p[i]]] : p \in Permutations(DOMAIN df)}

\* DataFrame.sort_values on one column (quicksort: the order of rows with
\* equal keys is not fixed): every ordering that is sorted on the column
sort_confidence_desc(df) ==
    {t \in Reorderings(df) :
        \A i \in 1..(Len(t) - 1) : fle(t[i + 1].confidence, t[i].confidence)}
sort_confidence_asc(df) ==
    {t \in Reorderings(df) :
        \A i \in 1..(Len(t) - 1) : fle(t[i].confidence, t[i + 1].confidence)}
sort_gameday(df) ==
    {t \in Reorderings(df) :
        \A i \in 1..(Len(t) - 1) : t[i].gameday <= t[i + 1].gameday}

head(df, n) == SubSeq(df, 1, IF n < Len(df) THEN n ELSE Len(df))

\* _format_for_ui: matchup "{away} @ {home}", pick, confidence
_format_for_ui(df) ==
    [i \in DOMAIN df |->
        [matchup |-> <<df[i].away_team, df[i].home_team>>,
         pick |-> df[i].predicted_winner,
         confidence |-> df[i].confidence]]

\* split_top_and_flips: the results it can return, (top_picks, coin_flips)
split_top_and_flips(df, top_k, flip_band) ==
    IF df = <<>> THEN {[top |-> PyList(<<>>), flips |-> PyList(<<>>)]}
    ELSE
        LET margin(r) == fabs(fsub(r.confidence, D(50)))
            banded == SelectSeq(df, LAMBDA r : fle(margin(r), flip_band))
        IN  {[top   |-> PyList(_format_for_ui(head(t, top_k))),
              flips |-> PyList(_format_for_ui(f))] :
                t \in sort_confidence_desc(df), f \in sort_confidence_asc(banded)}

\* the summary of main: (topk, flips) of the final table out
cli_summary(out, top_k, flip_band) ==
    LET low  == fsub(D(50), flip_band)
        high == fadd(D(50), flip_band)
        banded == SelectSeq(out, LAMBDA r :
                      fle(low, r.confidence) /\ fle(r.confidence, high))
    IN  {[topk |-> head(t, Max0(0, top_k)), flips |-> f] :
            t \in sort_confidence_desc(out), f \in sort_gameday(banded)}

\* week_matchups: the schedule rows of the requested week
week_matchups(sched0, season, week) ==
    SelectSeq(load_games(sched0, {season}),
              LAMBDA r : r.season = season /\ r.week = week)

\* the probabilities a fitted model can give to the rows of a table
ModelProbs == {0, 48, 52}
predict_proba(X) == [DOMAIN X -> {D(p) : p \in ModelProbs}]

GameIds(df) == SortSeq(SetToSeq({df[i].game_id : i \in DOMAIN df}),
                       LAMBDA a, b : a < b)

\* sort by game_id and descending team_prob_win (stable), first row per game
best_per_game(df_wk, proba) ==
    LET ids == GameIds(df_wk)
        first(g) == CHOOSE i \in DOMAIN df_wk :
            /\ df_wk[i].game_id = g
            /\ \A j \in DOMAIN df_wk : df_wk[j].game_id = g =>
                  \/ flt(proba[j], proba[i])
                  \/ (proba[j] = proba[i] /\ i <= j)
    IN  [k \in DOMAIN ids |->
            [team_prob_win |-> proba[first(ids[k])]] @@ df_wk[first(ids[k])]]

\* the final table of main: one pick per game, sorted by gameday, home_team
cli_out(best, games) ==
    LET game(g) == games[CHOOSE i \in DOMAIN games : games[i].game_id = g]
        rows == [i \in DOMAIN best |->
            LET gm == game(best[i].game_id) IN
            [season |-> gm.season, week |-> gm.week, gameday |-> gm.gameday,
             home_team |-> gm.home_team, away_team |-> gm.away_team,
             predicted_winner |-> IF best[i].home = 1 THEN gm.home_team
                                  ELSE gm.away_team,
             confidence |-> best[i].team_prob_win]]
    IN  SortSeq(rows, LAMBDA a, b : a.gameday * 100 + a.home_team
                                    < b.gameday * 100 + b.home_team)

NoRun == [status |-> "idle"]
CliNotice(text) ==
    [status |-> "returned", notice |-> text, model_loaded |-> FALSE,
     out |-> <<>>, topk |-> <<>>, flips |-> <<>>]

\* main, lines 111-121: the table is printed with its two summaries
main_report(out, top_k, flip_band) ==
    {[status |-> "returned", notice |-> "none", model_loaded |-> TRUE,
      out |-> out, topk |-> sm.topk, flips |-> sm.flips] :
        sm \in cli_summary(out, top_k, flip_band)}

\* main, lines 65-109: the rows of the week are scored by the loaded model
main_predict(df_wk, games, top_k, flip_band) ==
    IF df_wk = <<>> THEN {CliNotice("zero_rows")}
    ELSE UNION {main_report(cli_out(best_per_game(df_wk, proba), games),
                            top_k, flip_band) :
                    proba \in predict_proba(df_wk)}

\* main, lines 59-65: no games in the week ends the run before load_model
main_week(df, games, top_k, flip_band) ==
    IF games = <<>> THEN {CliNotice("no_games")}
    ELSE main_predict(
             SelectSeq(df, LAMBDA r :
                 r.game_id \in {games[i].game_id : i \in DOMAIN games}),
             games, top_k, flip_band)

\* main of src/src/predict.py: the records a run with these arguments can
\* end with
main(src, args) ==
    IF build_raises(src) THEN {[status |-> "raised"]}
    ELSE main_week(build_dataset(src, Min(SEASONS)..args.season, ROLLING_N),
                   week_matchups(src.schedules, args.season, args.week),
                   args.top_k, args.flip_band)

Main ==
    /\ request.path = "cli"
    /\ cli = NoRun
    /\ \E r \in main(Source, request) : cli' = r
    /\ UNCHANGED <<dataVars, rollVars, splitVars, request, api, toolVars>>

PickColumns == {"game_id", "season", "week", "gameday", "home_team",
                "away_team", "home_win_prob", "away_win_prob",
                "predicted_winner", "confidence"}

\* the first row of each game among the rows with the given home flag
side_rows(df_wk, proba, home_flag) ==
    LET ids == GameIds(SelectSeq(df_wk, LAMBDA r : r.home = home_flag))
        first(g) == CHOOSE i \in DOMAIN df_wk :
            /\ df_wk[i].game_id = g /\ df_wk[i].home = home_flag
            /\ \A j \in 1..(i - 1) :
                  ~(df_wk[j].game_id = g /\ df_wk[j].home = home_flag)
    IN  [k \in DOMAIN ids |->
            [game_id |-> ids[k], prob_raw |-> proba[first(ids[k])]]]

\* fillna(0.0) and x / denom with denom 0 replaced by NaN, then fillna(0.5)
normalise(x, home_raw, away_raw) ==
    LET h == IF IsNaND(home_raw) THEN D(0) ELSE home_raw
        a == IF IsNaND(away_raw) THEN D(0) ELSE away_raw
        denom == fadd(h, a)
    IN  IF IsNaND(x) \/ denom = D(0) THEN D(50) ELSE fdiv(x, denom)

\* one row of the picks table: the game gm with its two raw probabilities
pick_row(gm, home_raw, away_raw) ==
    LET hp == normalise(home_raw, home_raw, away_raw)
        ap == normalise(away_raw, home_raw, away_raw)
    IN  [game_id |-> gm.game_id, season |-> gm.season, week |-> gm.week,
         gameday |-> gm.gameday,
         home_team |-> gm.home_team, away_team |-> gm.away_team,
         home_win_prob |-> hp, away_win_prob |-> ap,
         predicted_winner |-> IF fle(ap, hp) THEN gm.home_team
                              ELSE gm.away_team,
         confidence |-> IF fle(ap, hp) THEN hp ELSE ap]

\* compute_week_picks, lines 121-188: one row per game with a home row
week_picks(df_wk, sched_wk, proba) ==
    LET home_rows == side_rows(df_wk, proba, 1)
        away_rows == side_rows(df_wk, proba, 0)
        away_of(g) ==
            LET m == SelectSeq(away_rows, LAMBDA r : r.game_id = g)
            IN  IF m = <<>> THEN NaND ELSE m[1].prob_raw
    IN  [i \in DOMAIN home_rows |->
            pick_row(sched_wk[CHOOSE k \in DOMAIN sched_wk :
                                 sched_wk[k].game_id = home_rows[i].game_id],
                     home_rows[i].prob_raw, away_of(home_rows[i].game_id))]

\* compute_week_picks, lines 71-124: an empty week returns the empty table
\* before the model is loaded
picks_of_week(df_wk, sched_wk) ==
    IF df_wk = <<>> THEN {<<>>}
    ELSE {week_picks(df_wk, sched_wk, proba) : proba \in predict_proba(df_wk)}

\* compute_week_picks: the tables it can return
compute_week_picks(src, season, week) ==
    picks_of_week(
        SelectSeq(build_dataset(src, SEASONS \cup {season}, ROLLING_N),
                  LAMBDA r : r.season = season /\ r.week = week),
        SelectSeq(load_games(src.schedules, SEASONS \cup {season}),
                  LAMBDA r : r.season = season /\ r.week = week))

\* to_models of the /predict handler: iterates frame.iterrows()
to_models(frame) ==
    IF frame.kind = "frame"
    THEN [i \in DOMAIN frame.rows |->
             [c \in PickColumns \ {"home_win_prob", "away_win_prob"} |->
                 frame.rows[i][c]]]
    ELSE Raised

\* predict, lines 28-46: the three lists of the response
predict_response(df, top, flips) ==
    IF Raised \in {to_models(Frame(df)), to_models(top), to_models(flips)}
    THEN [status |-> "error", df |-> df]
    ELSE [status |-> "ok", df |-> df, picks |-> to_models(Frame(df)),
          top_confidence |-> to_models(top), coin_flips |-> to_models(flips)]

\* predict, line 26
predict_split(df, top_k, flip_band) ==
    {predict_response(df, sp.top, sp.flips) :
        sp \in split_top_and_flips(df, top_k, flip_band)}

\* POST /predict (api/main.py): the outcomes of a request with body req
predict(src, req) ==
    IF build_raises(src) THEN {[status |-> "error", df |-> <<>>]}
    ELSE UNION {predict_split(df, req.top_k, req.flip_band) :
                    df \in compute_week_picks(src, req.season, req.week)}

Predict ==
    /\ request.path = "api"
    /\ api = NoRun
    /\ \E r \in predict(Source, request) : api' = r
    /\ UNCHANGED <<dataVars, rollVars, splitVars, request, cli, toolVars>>

\* the requests of the prediction specification: a season and week, with
\* the default top_k and flip_band of both paths
TOP_K     == 5
FLIP_BAND == 2
Requests ==
    [path : {"cli", "api"}, season : 1..(Season(MaxGames) + 1), week : 1..2,
     top_k : {TOP_K}, flip_band : {D(FLIP_BAND)}]

\* the schedules of the prediction specification: the same two teams meet
\* in every game slot, taking turns at home
TurnSchedules ==
    {x \in Schedules : \A g \in DOMAIN x :
        x[g].home_team = 2 - (g % 2) /\ x[g].away_team = 1 + (g % 2)}

InitPredict ==
    /\ schedules \in TurnSchedules
    /\ market = AbsentFile /\ weather = AbsentFile
    /\ qb = AbsentFile /\ epa = AbsentFile
    /\ call = Idle
    /\ teamwk = <<>> /\ rolled = NoRoll
    /\ picks_df = <<>> /\ summary = <<>>
    /\ request \in Requests
    /\ cli = NoRun /\ api = NoRun
    /\ ToolsIdle

NextPredict == Main \/ Predict

SpecPredict == InitPredict /\ [][NextPredict]_vars


(***************************************************************************)
(* Both prediction paths on the same request, files and model artifact.    *)
(* The artifact is a fitted model that scores a row by its home flag:      *)
(* model[1] for the home row of a game, model[0] for the away row.         *)
(***************************************************************************)
\* model.predict_proba(X)[:, 1] of the loaded artifact
score(model, X) == [i \in DOMAIN X |-> D(model[X[i].home])]

\* the table main of src/src/predict.py prints (lines 55-109)
main_with(src, args, model) ==
    LET df    == build_dataset(src, Min(SEASONS)..args.season, ROLLING_N)
        games == week_matchups(src.schedules, args.season, args.week)
        df_wk == SelectSeq(df, LAMBDA r :
                     r.game_id \in {games[i].game_id : i \in DOMAIN games})
    IN  IF build_raises(src) THEN [status |-> "raised", out |-> <<>>]
        ELSE IF games = <<>> \/ df_wk = <<>>
        THEN [status |-> "returned", out |-> <<>>]
        ELSE [status |-> "returned",
              out |-> cli_out(best_per_game(df_wk, score(model, df_wk)),
                              games)]

\* the table compute_week_picks returns (src/api/utils.py, lines 57-188)
compute_week_picks_with(src, season, week, model) ==
    LET df_wk == SelectSeq(build_dataset(src, SEASONS \cup {season}, ROLLING_N),
                     LAMBDA r : r.season = season /\ r.week = week)
        sched_wk == SelectSeq(load_games(src.schedules, SEASONS \cup {season}),
                     LAMBDA r : r.season = season /\ r.week = week)
    IN  IF build_raises(src) THEN [status |-> "raised", out |-> <<>>]
        ELSE IF df_wk = <<>> THEN [status |-> "returned", out |-> <<>>]
        ELSE [status |-> "returned",
              out |-> week_picks(df_wk, sched_wk, score(model, df_wk))]

\* python -m src.predict --season S --week W
CliPicks ==
    /\ request.path = "both" /\ cli = NoRun
    /\ \E r \in {main_with(Source, request, request.model)} : cli' = r
    /\ UNCHANGED <<dataVars, rollVars, splitVars, request, api, toolVars>>

\* compute_week_picks(S, W), as POST /predict calls it
ApiPicks ==
    /\ request.path = "both" /\ api = NoRun
    /\ \E r \in {compute_week_picks_with(Source, request.season,
                                         request.week, request.model)} :
          api' = r
    /\ UNCHANGED <<dataVars, rollVars, splitVars, request, cli, toolVars>>

\* a request answered by both paths, and the artifact both load
BothRequests ==
    [path : {"both"}, season : 1..(Season(MaxGames) + 1), week : 1..2,
     top_k : {TOP_K}, flip_band : {D(FLIP_BAND)},
     model : [{0, 1} -> ModelProbs]]

InitBoth ==
    /\ schedules \in TurnSchedules
    /\ market = AbsentFile /\ weather = AbsentFile
    /\ qb = AbsentFile /\ epa = AbsentFile
    /\ call = Idle
    /\ teamwk = <<>> /\ rolled = NoRoll
    /\ picks_df = <<>> /\ summary = <<>>
    /\ request \in BothRequests
    /\ cli = NoRun /\ api = NoRun
    /\ ToolsIdle

NextBoth == CliPicks \/ ApiPicks

SpecBoth == InitBoth /\ [][NextBoth]_vars


(***************************************************************************)
(* Specification of the summaries: a bounded pick list is drawn and both   *)
(* paths summarise it.                                                     *)
(***************************************************************************)
ConfLits == {47, 48, 50, 52, 53, 55, 91}
BandLits == {0, 2, 3}

\* pick i of a list: its own matchup and day, the home team picked
PickRow(i, c) ==
    [game_id |-> i, season |-> 1, week |-> 1, gameday |-> (MaxPicks + 1) - i,
     home_team |-> 2 * i - 1, away_team |-> 2 * i,
     home_win_prob |-> D(c), away_win_prob |-> fsub(D(100), D(c)),
     predicted_winner |-> 2 * i - 1, confidence |-> D(c)]
PickLists ==
    UNION {{[i \in 1..n |-> PickRow(i, cs[i])] : cs \in [1..n -> ConfLits]} :
           n \in 0..MaxPicks}

\* the columns of the CLI's final table
CliColumns == {"season", "week", "gameday", "home_team", "away_team",
               "predicted_winner", "confidence"}
NoSummary == [fn |-> "none"]

SplitTopAndFlips ==
    /\ summary.api = NoSummary
    /\ \E sp \in split_top_and_flips(picks_df, request.top_k, request.flip_band) :
          summary' = [summary EXCEPT !.api =
              [fn |-> "split_top_and_flips", top |-> sp.top.rows,
               flips |-> sp.flips.rows]]
    /\ UNCHANGED <<dataVars, rollVars, picks_df, predictVars, toolVars>>

CliSummary ==
    /\ summary.cli = NoSummary
    /\ LET out == [i \in DOMAIN picks_df |-> Restrict(picks_df[i], CliColumns)] IN
       \E sm \in cli_summary(out, request.top_k, request.flip_band) :
          summary' = [summary EXCEPT !.cli =
              [fn |-> "main", top |-> sm.topk, flips |-> sm.flips]]
    /\ UNCHANGED <<dataVars, rollVars, picks_df, predictVars, toolVars>>

InitSplit ==
    /\ picks_df \in PickLists
    /\ summary = [api |-> NoSummary, cli |-> NoSummary]
    /\ request \in [path : {"none"}, season : {1}, week : {1},
                    top_k : 0..MaxTopK, flip_band : {D(b) : b \in BandLits}]
    /\ cli = NoRun /\ api = NoRun
    /\ ToolsIdle
    /\ schedules = <<>> /\ market = <<>> /\ weather = <<>> /\ qb = <<>>
    /\ epa = <<>> /\ call = <<>> /\ teamwk = <<>> /\ rolled = NoRoll

NextSplit == SplitTopAndFlips \/ CliSummary

SpecSplit == InitSplit /\ [][NextSplit]_vars


(***************************************************************************)
(* Exact arithmetic on fractions, for metrics, stakes and profits.         *)
(***************************************************************************)
RECURSIVE GCD(_, _)
GCD(a, b) == IF b = 0 THEN a ELSE GCD(b, a % b)
\* the fraction n / d (d # 0) in lowest terms with a positive denominator
Norm(n, d) ==
    LET an == IF n < 0 THEN -n ELSE n
        ad == IF d < 0 THEN -d ELSE d
        g  == GCD(an, ad)
        sg == IF (n < 0) # (d < 0) THEN -1 ELSE 1
    IN  Frac(sg * (an \div g), ad \div g)
AddF(a, b) == Norm(a.num * b.den + b.num * a.den, a.den * b.den)
SubF(a, b) == Norm(a.num * b.den - b.num * a.den, a.den * b.den)
MulF(a, b) == Norm(a.num * b.num, a.den * b.den)
DivF(a, b) == Norm(a.num * b.den, a.den * b.num)
RECURSIVE SumF(_)
SumF(s) == IF s = <<>> THEN Frac(0, 1) ELSE AddF(Head(s), SumF(Tail(s)))


(***************************************************************************)
(* The Backtest CLI (src/src/eval_backtest.py) and the season folds of the *)
(* Tuning CLI (src/src/tune.py).  Row i of a table has index label and     *)
(* position i: build_dataset returns a table with a fresh range index.     *)
(***************************************************************************)
MaxSeasons     == 3    \* seasons of a backtested schedule, 1..MaxSeasons
MaxFoldSeasons == 6    \* seasons of a table handed to a fold generator

\* sorted(df["season"].unique())
SeasonsOf(df) ==
    SortSeq(SetToSeq({df[i].season : i \in DOMAIN df}), LAMBDA a, b : a < b)
\* df.index[df["season"] < t] and df.index[df["season"] == t]
index_of(df, t) ==
    SelectSeq([i \in DOMAIN df |-> i], LAMBDA i : df[i].season = t)
\* a generator that also trains on the test season itself
index_upto(df, t) ==
    SelectSeq([i \in DOMAIN df |-> i], LAMBDA i : df[i].season <= t)
index_before(df, t) ==
    SelectSeq([i \in DOMAIN df |-> i], LAMBDA i : df[i].season < t)

\* the folds of the given test seasons that have training and test rows
folds_of(df, tests) ==
    SelectSeq([k \in DOMAIN tests |->
                  [t |-> tests[k], train |-> index_before(df, tests[k]),
                   test |-> index_of(df, tests[k])]],
              LAMBDA f : f.train # <<>> /\ f.test # <<>>)

\* _season_folds of eval_backtest.py
backtest_season_folds(df) ==
    IF df = <<>> THEN <<>> ELSE folds_of(df, Tail(SeasonsOf(df)))

\* _season_folds of tune.py: max_folds = 0 stands for None (both are falsy)
TUNE_MIN_SEASONS == 5
tune_season_folds(df, min_seasons, max_folds) ==
    LET seasons == SeasonsOf(df)
        tests   == Tail(seasons)
        from    == IF max_folds >= Len(tests) THEN 1
                   ELSE Len(tests) - max_folds + 1
    IN  IF Len(seasons) < min_seasons THEN Raised
        ELSE folds_of(df, IF max_folds # 0
                          THEN SubSeq(tests, from, Len(tests)) ELSE tests)

\* -ln(clip(p, 1e-6, 1 - 1e-6)) in thousandths, for the probabilities the
\* model gives (p in hundredths) and their complements
NegLog(c) ==
    IF c = 0 THEN 13816 ELSE IF c = 48 THEN 734 ELSE IF c = 52 THEN 654 ELSE 0

\* sklearn.metrics.log_loss of a binary target: the mean of -ln of the
\* probability given to the true label; it raises ValueError when y_true
\* holds one label only
log_loss(y_true, y_prob) ==
    IF Cardinality(Range(y_true)) < 2 THEN NaNF
    ELSE Frac(SumSeq([i \in DOMAIN y_true |->
                  NegLog(IF y_true[i] = 1 THEN y_prob[i].c
                         ELSE 100 - y_prob[i].c)]),
              1000 * Len(y_true))

\* _brier_score: mean((y_prob - y_true) ** 2)
_brier_score(y_true, y_prob) ==
    Frac(SumSeq([i \in DOMAIN y_true |->
             (y_prob[i].c - 100 * y_true[i]) * (y_prob[i].c - 100 * y_true[i])]),
         10000 * Len(y_true))

\* the body of the loop of backtest for one fold (lines 50-58) on the rows
\* _select_best_side keeps, the row of higher probability of each game (as
\* best_per_game does)
fold_metrics(t, best, y_true, y_prob) ==
    LET y_hat == [i \in DOMAIN best |-> IF fle(D(50), y_prob[i]) THEN 1 ELSE 0]
        hits  == Cardinality({i \in DOMAIN best : y_hat[i] = y_true[i]})
    IN  [season |-> t, games |-> Len(best),
         accuracy |-> Frac(hits, Len(best)),
         log_loss |-> log_loss(y_true, y_prob),
         brier |-> _brier_score(y_true, y_prob)]

\* the rows a fold can append to results, one for each way the fitted model
\* can score the rows of the test season
fold_results(all_df, f) ==
    {fold_metrics(f.t, best,
         [i \in DOMAIN best |-> IF best[i].team_win = 1 THEN 1 ELSE 0],
         [i \in DOMAIN best |-> best[i].team_prob_win]) :
       best \in UNION {{best_per_game(test_df, proba) :
                           proba \in predict_proba(test_df)} :
                       test_df \in {[k \in DOMAIN f.test |-> all_df[f.test[k]]]}}}

\* res[col].mean()
mean(res, col) ==
    DivF(SumF([i \in DOMAIN res |-> res[i][col]]), Frac(Len(res), 1))

\* the label of the summary row
MEAN == 0

\* lines 60-70 of backtest: sort_values("season") raises KeyError on the
\* frame of an empty results list, which has no columns
backtest_report(results) ==
    IF \E i \in DOMAIN results : IsNaNF(results[i].log_loss)
    THEN [status |-> "raised", error |-> "ValueError", rows |-> <<>>]
    ELSE IF results = <<>>
    THEN [status |-> "raised", error |-> "KeyError", rows |-> <<>>]
    ELSE LET res == SortSeq(results, LAMBDA a, b : a.season < b.season)
         IN  [status |-> "returned", error |-> "none",
              rows |-> res \o
                  <<[season |-> MEAN,
                     games |-> SumSeq([i \in DOMAIN res |-> res[i].games]),
                     accuracy |-> mean(res, "accuracy"),
                     log_loss |-> mean(res, "log_loss"),
                     brier |-> mean(res, "brier")]>>]

\* the reports backtest can end with, given the dataset and its folds
backtest_reports(all_df, fs) ==
    UNION {{backtest_report(r) :
               r \in {x \in [DOMAIN fs -> UNION Range(per)] :
                          \A k \in DOMAIN fs : x[k] \in per[k]}} :
           per \in {[k \in DOMAIN fs |-> fold_results(all_df, fs[k])]}}

\* backtest(seasons, rolling_n) on the source src
backtest(src, seasons, rolling_n) ==
    UNION {backtest_reports(all_df, backtest_season_folds(all_df)) :
              all_df \in {build_dataset(src, seasons, rolling_n)}}

NoReport == [status |-> "idle", error |-> "none", rows |-> <<>>, seasons |-> {}]

Backtest(seasons) ==
    /\ report = NoReport
    /\ \E r \in backtest(Source, seasons, ROLLING_N) :
          report' = [seasons |-> seasons] @@ r
    /\ UNCHANGED <<dataVars, rollVars, splitVars, predictVars, folds,
                   pipeVars, modelVars, betVars, auxVars>>

\* the schedules of the backtest specification: up to two games a season,
\* the same fixture every time, every game played and won by one side
SeasonShapes == [1..MaxSeasons -> 0..2]
ShapedSchedules ==
    UNION {
        LET slots == SortSeq(SetToSeq({g \in 1..(2 * MaxSeasons) :
                                 Week(g) <= n[Season(g)]}),
                             LAMBDA a, b : a < b)
        IN  {[k \in DOMAIN slots |-> ScheduleRow(slots[k], <<1, 2>>, sc[k])] :
                sc \in [DOMAIN slots -> {<<1, 0>>, <<0, 1>>}]} :
        n \in SeasonShapes}
\* the spans START-END of the --seasons argument
Spans == {s..e : s \in 1..MaxSeasons, e \in 1..MaxSeasons} \ {{}}

InitBacktest ==
    /\ schedules \in ShapedSchedules
    /\ market = AbsentFile /\ weather = AbsentFile
    /\ qb = AbsentFile /\ epa = AbsentFile
    /\ call = Idle
    /\ CoreIdle
    /\ report = NoReport /\ folds = <<>>
    /\ PipeIdle /\ ModelIdle /\ BetIdle /\ AuxIdle

\* a span is backtested when the schedule has a game in one of its seasons
NextBacktest ==
    \E seasons \in Spans :
        /\ \E g \in DOMAIN schedules : schedules[g].season \in seasons
        /\ Backtest(seasons)

SpecBacktest == InitBacktest /\ [][NextBacktest]_vars

\* the tables of the fold specification: the seasons of the rows of a
\* dataset, home rows then away rows, up to two games a season
FoldTables ==
    {LET games == SortSeq(SetToSeq({g \in 1..(2 * MaxFoldSeasons) :
                              Week(g) <= n[Season(g)]}),
                          LAMBDA a, b : a < b)
         side == [k \in DOMAIN games |->
                     [game_id |-> games[k], season |-> Season(games[k])]]
     IN  side \o side : n \in [1..MaxFoldSeasons -> 0..2]}

NoFolds(df) == [fn |-> "none", df |-> df, max_folds |-> 0, list |-> <<>>]

\* the fold loop of backtest (line 40)
BacktestFolds ==
    /\ folds.fn = "none"
    /\ folds' = [folds EXCEPT !.fn = "backtest",
                              !.list = backtest_season_folds(folds.df)]
    /\ UNCHANGED <<dataVars, rollVars, splitVars, predictVars, report,
                   pipeVars, modelVars, betVars, auxVars>>

\* the fold list of the Tuning CLI (line 83)
TuneFolds(max_folds) ==
    /\ folds.fn = "none"
    /\ folds' = [folds EXCEPT !.fn = "tune", !.max_folds = max_folds,
                    !.list = tune_season_folds(folds.df, TUNE_MIN_SEASONS,
                                               max_folds)]
    /\ UNCHANGED <<dataVars, rollVars, splitVars, predictVars, report,
                   pipeVars, modelVars, betVars, auxVars>>

InitFolds ==
    /\ \E df \in FoldTables : folds = NoFolds(df)
    /\ report = <<>>
    /\ schedules = <<>> /\ market = <<>> /\ weather = <<>> /\ qb = <<>>
    /\ epa = <<>> /\ call = <<>>
    /\ CoreIdle /\ PipeIdle /\ ModelIdle /\ BetIdle /\ AuxIdle

NextFolds ==
    \/ BacktestFolds
    \/ \E max_folds \in 0..MaxSeasons : TuneFolds(max_folds)

SpecFolds == InitFolds /\ [][NextFolds]_vars


(***************************************************************************)
(* The collectors (src/scripts/fetch_odds.py and                           *)
(* src/scripts/fetch_weather_nflweather.py).  A run fetches a feed, keys   *)
(* its rows by the game ids of the week's schedule and merges them into    *)
(* the persisted CSV.  A feed event is [home, away, v, ok]: the two team   *)
(* names, the values it carries and whether it can be parsed.              *)
(***************************************************************************)
MaxRuns == 3    \* runs of one collector in a row

\* df.drop_duplicates(subset=subset, keep="first"): the earlier row survives
drop_duplicates_first(df, subset) ==
    LET keep == {i \in DOMAIN df : ~ \E j \in DOMAIN df :
                     j < i /\ \A c \in subset : df[j][c] = df[i][c]}
    IN  [k \in 1..Cardinality(keep) |->
            df[CHOOSE i \in keep : Cardinality({j \in keep : j < i}) = k - 1]]
\* df.drop_duplicates(subset=subset, keep="last")
drop_duplicates(df, subset) ==
    LET keep == {i \in DOMAIN df : ~ \E j \in DOMAIN df :
                     j > i /\ \A c \in subset : df[j][c] = df[i][c]}
    IN  [k \in 1..Cardinality(keep) |->
            df[CHOOSE i \in keep : Cardinality({j \in keep : j < i}) = k - 1]]

\* a merge into the file that forgets what the file held
concat_new(old, new) == new
\* pd.concat([old, new])
concat(old, new) == old \o new

\* df.merge(wk[["game_id","home_team","away_team"]], on=[...], how="inner")
merge_inner(df, wk) ==
    Flatten([i \in DOMAIN df |->
        LET m == SelectSeq(wk, LAMBDA r : r.home_team = df[i].home_team
                                          /\ r.away_team = df[i].away_team)
        IN  [j \in DOMAIN m |-> df[i] @@ [game_id |-> m[j].game_id]]])

\* sched[(sched["season"] == season) & (sched["week"] == week)]
week_schedule(season, week) ==
    SelectSeq(load_games(schedules, {season}),
              LAMBDA r : r.season = season /\ r.week = week)

\* NAME_TO_ABBR: the feed names 11..14 are the teams 1..4, others are unknown
NAME_TO_ABBR == [name \in 11..14 |-> name - 10]

\* _parse_event of every event, the unparsed ones (unknown name, no
\* bookmaker) left out
parsed_odds(odds) ==
    LET evs == SelectSeq(odds, LAMBDA ev : /\ ev.home \in DOMAIN NAME_TO_ABBR
                                           /\ ev.away \in DOMAIN NAME_TO_ABBR
                                           /\ ev.ok)
    IN  [i \in DOMAIN evs |->
            [home_team |-> NAME_TO_ABBR[evs[i].home],
             away_team |-> NAME_TO_ABBR[evs[i].away],
             close_spread_home |-> evs[i].v[1], ml_home |-> evs[i].v[2],
             ml_away |-> evs[i].v[3], total_points |-> 44]]

\* the file as to_csv writes it: missing cells are written empty and read
\* back missing, game ids stay strings
to_csv(rows) == [status |-> "ok", rows |-> rows]
\* os.path.exists
exists(file) == file.status # "absent"

\* the rows a run matched to the schedule, and the file it leaves behind
merged_into(file, merged) ==
    IF exists(file)
    THEN to_csv(drop_duplicates(concat(read_csv(file), merged), {"game_id"}))
    ELSE to_csv(merged)

\* main of fetch_odds.py on the fetched events: the matched rows
odds_matched(odds, season, week) ==
    LET rows   == parsed_odds(odds)
        df     == drop_duplicates(rows, {"home_team", "away_team"})
        merged == merge_inner(df, week_schedule(season, week))
        out    == [i \in DOMAIN merged |->
                      Restrict(merged[i], {"game_id", "close_spread_home",
                                 "ml_home", "ml_away", "total_points"})]
    IN  IF rows = <<>> THEN <<>> ELSE drop_duplicates(out, {"game_id"})

\* fetch_week: the events with both teams named, as rows
fetch_week(data) ==
    LET gs == SelectSeq(data, LAMBDA g : g.ok)
    IN  [i \in DOMAIN gs |->
            [home_team |-> gs[i].home - 10, away_team |-> gs[i].away - 10,
             temp_f |-> gs[i].v[1],
             wind_mph |-> IF gs[i].v[2] = NaN THEN NaN ELSE 12,
             is_precip |-> IF gs[i].v[3] = 1 THEN 1 ELSE 0,
             is_outdoor |-> 1]]

\* attach_game_ids: a left join on (home, away), a second one with the two
\* teams swapped for the rows without a game, then the unmatched rows dropped
game_id_of(wk, home, away) ==
    LET m == SelectSeq(wk, LAMBDA r : r.home_team = home /\ r.away_team = away)
    IN  IF m = <<>> THEN NaN ELSE m[1].game_id
attach_game_ids(df, season, week) ==
    LET wk == week_schedule(season, week)
        merged == [i \in DOMAIN df |->
            LET g == game_id_of(wk, df[i].home_team, df[i].away_team)
            IN  df[i] @@ [game_id |->
                    IF g # NaN THEN g
                    ELSE game_id_of(wk, df[i].away_team, df[i].home_team)]]
    IN  SelectSeq(merged, LAMBDA r : r.game_id # NaN)

\* main of fetch_weather_nflweather.py on the fetched events
weather_matched(data, season, week) ==
    LET week_df == attach_game_ids(fetch_week(data), season, week)
        out == [i \in DOMAIN week_df |->
                   Restrict(week_df[i], {"game_id", "wind_mph", "temp_f",
                                         "is_precip", "is_outdoor"})]
    IN  drop_duplicates(out, {"game_id"})

\* the record of the latest run of a collector: what it fetched, whether
\* that is what the run before it fetched, the file it found, the rows it
\* matched
NoFetch(tool) ==
    [tool |-> tool, n |-> 0, status |-> "none", week |-> 0, feed |-> <<>>,
     same |-> FALSE, before |-> AbsentFile, matched |-> <<>>]
RunOf(week, feed, file, matched, status) ==
    [tool |-> lastrun.tool, n |-> lastrun.n + 1, status |-> status,
     week |-> week, feed |-> feed,
     same |-> lastrun.status = "ran" /\ lastrun.week = week
              /\ lastrun.feed = feed,
     before |-> file, matched |-> matched]

\* python scripts/fetch_odds.py --season 1 --week week
FetchOdds(week, odds) ==
    /\ lastrun.tool = "odds" /\ lastrun.n < MaxRuns
    /\ \E merged \in {odds_matched(odds, 1, week)} :
          /\ market' = IF merged = <<>> THEN market
                       ELSE merged_into(market, merged)
          /\ lastrun' = RunOf(week, odds, market, merged, "ran")
    /\ UNCHANGED <<schedules, weather, qb, epa, call, rollVars, splitVars,
                   predictVars, evalVars, pipeline, modelVars, betVars, auxVars>>

\* python scripts/fetch_weather_nflweather.py --season 1 --week week
FetchWeather(week, data) ==
    /\ lastrun.tool = "weather" /\ lastrun.n < MaxRuns
    /\ \E week_df \in {weather_matched(data, 1, week)} :
          /\ weather' = IF week_df = <<>> THEN weather
                        ELSE merged_into(weather, week_df)
          /\ lastrun' = RunOf(week, data, weather, week_df, "ran")
    /\ UNCHANGED <<schedules, market, qb, epa, call, rollVars, splitVars,
                   predictVars, evalVars, pipeline, modelVars, betVars, auxVars>>

\* a run whose request fails (no API key, HTTP error, unexpected payload)
FetchFails ==
    /\ lastrun.n < MaxRuns
    /\ lastrun' = RunOf(1, <<>>, IF lastrun.tool = "odds" THEN market
                                 ELSE weather, <<>>, "raised")
    /\ UNCHANGED <<dataVars, rollVars, splitVars, predictVars, evalVars,
                   pipeline, modelVars, betVars, auxVars>>

\* the schedule of the collected season: two games in week 1, the return
\* game of the first in week 2
CollectSchedule ==
    <<[game_id |-> 1, season |-> 1, week |-> 1, gameday |-> 1,
       home_team |-> 1, away_team |-> 2, home_score |-> NaN, away_score |-> NaN],
      [game_id |-> 2, season |-> 1, week |-> 1, gameday |-> 1,
       home_team |-> 3, away_team |-> 4, home_score |-> NaN, away_score |-> NaN],
      [game_id |-> 3, season |-> 1, week |-> 2, gameday |-> 2,
       home_team |-> 2, away_team |-> 1, home_score |-> NaN, away_score |-> NaN]>>

\* the events of a feed: the scheduled pairings, a pairing with a name that
\* is not an NFL team, an event without bookmaker (odds) or team (weather)
FeedValues == {<<-3, -150, 130>>, <<3, NaN, 1>>}
FeedEvents ==
    {[home |-> p[1], away |-> p[2], v |-> v, ok |-> TRUE] :
        p \in {<<11, 12>>, <<13, 14>>, <<12, 11>>, <<19, 12>>}, v \in FeedValues}
    \cup {[home |-> 11, away |-> 12, v |-> <<-3, -150, 130>>, ok |-> FALSE]}
Feeds == {<<>>} \cup SeqsUpTo(FeedEvents, 2)

InitCollect ==
    /\ schedules = CollectSchedule
    /\ market = AbsentFile /\ weather = AbsentFile
    /\ qb = AbsentFile /\ epa = AbsentFile /\ call = <<>>
    /\ \E tool \in {"odds", "weather"} : lastrun = NoFetch(tool)
    /\ pipeline = <<>>
    /\ CoreIdle /\ EvalIdle /\ ModelIdle /\ BetIdle /\ AuxIdle

NextCollect ==
    \/ \E week \in 1..2, odds \in Feeds : FetchOdds(week, odds)
    \/ \E week \in 1..2, data \in Feeds : FetchWeather(week, data)
    \/ FetchFails

SpecCollect == InitCollect /\ [][NextCollect]_vars


(***************************************************************************)
(* The weekly orchestrator (src/scripts/run_week.py).  main runs its tools *)
(* as child processes, one subprocess.check_call after the other; the      *)
(* state is the position of main, the child that runs, and the log of the  *)
(* commands started and of their exit statuses.                            *)
(***************************************************************************)
\* the commands of main in program order (lines 27, 32, 35, 38, 41, 42)
Stages == <<"fetch_odds", "fetch_weather", "derive_qb_status",
            "derive_epa_sr", "train", "predict">>

\* the environment variable ODDS_API_KEY
KeyStates == {"unset", "empty", "set"}
\* a test that takes an empty value for a key
key_defined(key) == key # "unset"
\* os.getenv("ODDS_API_KEY") as a condition: None and "" are falsy
getenv_truthy(key) == key = "set"

\* a runner that does not look at the exit status (subprocess.call)
call_unchecked(returncode) == "ok"
\* subprocess.check_call: CalledProcessError on a non-zero exit status
check_call(returncode) ==
    IF returncode # 0 THEN "CalledProcessError" ELSE "ok"

\* exit statuses of a child: success, an error exit, a usage error, a signal
ExitCodes == {0, 1, 2, -9}

\* main after argument parsing, about to reach line 26
PipelineAt(key, season, week) ==
    [key |-> key, season |-> season, week |-> week, pc |-> 1,
     running |-> "none", started |-> <<>>, exits |-> <<>>,
     skipped |-> <<>>, status |-> "running"]

\* main reaches its next command: the odds stage is skipped when the key is
\* not configured (lines 26-29), any other is started with run(cmd)
StartStage ==
    /\ pipeline.status = "running" /\ pipeline.running = "none"
    /\ pipeline.pc <= Len(Stages)
    /\ pipeline' =
          IF Stages[pipeline.pc] = "fetch_odds" /\ ~getenv_truthy(pipeline.key)
          THEN [pipeline EXCEPT !.pc = @ + 1,
                                !.skipped = Append(@, Stages[pipeline.pc])]
          ELSE [pipeline EXCEPT !.running = Stages[pipeline.pc],
                                !.started = Append(@, Stages[pipeline.pc])]
    /\ UNCHANGED <<dataVars, rollVars, splitVars, predictVars, evalVars,
                   lastrun, modelVars, betVars, auxVars>>

\* the child exits: check_call returns or raises, and after the last
\* command main prints "All done" and returns
StageExits(returncode) ==
    /\ pipeline.running # "none"
    /\ pipeline' =
          [pipeline EXCEPT
              !.running = "none",
              !.exits = Append(@, returncode),
              !.pc = @ + 1,
              !.status = IF check_call(returncode) # "ok" THEN "failed"
                         ELSE IF pipeline.pc = Len(Stages) THEN "done"
                         ELSE "running"]
    /\ UNCHANGED <<dataVars, rollVars, splitVars, predictVars, evalVars,
                   lastrun, modelVars, betVars, auxVars>>

InitPipeline ==
    /\ \E key \in KeyStates, season \in 1..2, week \in 1..2 :
          pipeline = PipelineAt(key, season, week)
    /\ lastrun = <<>>
    /\ schedules = <<>> /\ market = <<>> /\ weather = <<>> /\ qb = <<>>
    /\ epa = <<>> /\ call = <<>>
    /\ CoreIdle /\ EvalIdle /\ ModelIdle /\ BetIdle /\ AuxIdle

NextPipeline ==
    \/ StartStage
    \/ \E returncode \in ExitCodes : StageExits(returncode)

SpecPipeline == InitPipeline /\ [][NextPipeline]_vars


(***************************************************************************)
(* The Training CLI (src/src/train.py) and the persistence layer of        *)
(* src/src/model.py.  An object handed to joblib is the fitted pipeline or *)
(* a calibrator wrapped around it.                                         *)
(***************************************************************************)
MaxLabels == 2    \* rows of the training split given to fit

\* the pipeline after model.fit (line 23)
FittedEnsemble == [kind |-> "ensemble", method |-> "none"]
\* calibrate_model: CalibratedClassifierCV(trained_pipe, method, cv="prefit")
calibrate_model(trained_pipe, method) ==
    [kind |-> "calibrated", method |-> method]
NoArtifact == [kind |-> "absent", method |-> "none"]
Artifacts ==
    {NoArtifact, FittedEnsemble} \cup
    {calibrate_model(FittedEnsemble, m) : m \in {"isotonic", "sigmoid"}}

\* the training split can be fitted when it holds both classes
fit_raises(y_train) == Cardinality(Range(y_train)) < 2

\* getattr(Config, "CALIBRATE", False) (line 34)
calibrate_toggle(calibrate) == calibrate

\* main at line 22 with its configuration and its two splits
TrainAt(file, calibrate, method, y_train, n_val) ==
    [file |-> file, CALIBRATE |-> calibrate, CALIBRATION_METHOD |-> method,
     y_train |-> y_train, n_val |-> n_val, pc |-> "build",
     writes |-> <<>>, status |-> "running"]

\* lines 22-25: the ensemble is built and fitted, the holdout is predicted;
\* an unfittable training split or an empty holdout raises
TrainFit ==
    /\ artifact.status = "running" /\ artifact.pc = "build"
    /\ artifact' =
          IF fit_raises(artifact.y_train) \/ artifact.n_val = 0
          THEN [artifact EXCEPT !.status = "raised"]
          ELSE [artifact EXCEPT !.pc = "fitted"]
    /\ UNCHANGED <<dataVars, rollVars, splitVars, predictVars, evalVars,
                   pipeVars, ensemble, betVars, auxVars>>

\* lines 28-29: the isotonic calibrator is fitted on the holdout and saved
TrainSaveCalibrated ==
    /\ artifact.status = "running" /\ artifact.pc = "fitted"
    /\ \E cal_model \in {calibrate_model(FittedEnsemble, "isotonic")} :
          artifact' = [artifact EXCEPT !.pc = "saved",
                                       !.file = cal_model,
                                       !.writes = Append(@, cal_model)]
    /\ UNCHANGED <<dataVars, rollVars, splitVars, predictVars, evalVars,
                   pipeVars, ensemble, betVars, auxVars>>

\* lines 31-40: model is wrapped again when the toggle is on, and saved
TrainSaveModel ==
    /\ artifact.status = "running" /\ artifact.pc = "saved"
    /\ \E model \in {IF calibrate_toggle(artifact.CALIBRATE)
                     THEN calibrate_model(FittedEnsemble,
                                          artifact.CALIBRATION_METHOD)
                     ELSE FittedEnsemble} :
          artifact' = [artifact EXCEPT !.pc = "end", !.status = "done",
                                       !.file = model,
                                       !.writes = Append(@, model)]
    /\ UNCHANGED <<dataVars, rollVars, splitVars, predictVars, evalVars,
                   pipeVars, ensemble, betVars, auxVars>>

InitTrain ==
    /\ \E file \in Artifacts, calibrate \in BOOLEAN,
          method \in {"isotonic", "sigmoid"},
          y_train \in {<<>>} \cup SeqsUpTo({0, 1}, MaxLabels), n_val \in 0..2 :
          artifact = TrainAt(file, calibrate, method, y_train, n_val)
    /\ ensemble = <<>>
    /\ schedules = <<>> /\ market = <<>> /\ weather = <<>> /\ qb = <<>>
    /\ epa = <<>> /\ call = <<>>
    /\ CoreIdle /\ EvalIdle /\ PipeIdle /\ BetIdle /\ AuxIdle

NextTrain == TrainFit \/ TrainSaveCalibrated \/ TrainSaveModel

SpecTrain == InitTrain /\ [][NextTrain]_vars


(***************************************************************************)
(* The ensemble builder (src/src/model.py).  Weights are whole numbers     *)
(* (1 stands for 1.0); a value that may be None is [null, w]; a dict of    *)
(* tuned parameters is [none, keys, weights] with none for None.           *)
(***************************************************************************)
MaxWeights == 5    \* length of a persisted weight vector

None_w     == [null |-> TRUE, w |-> <<>>]
Some(w)    == [null |-> FALSE, w |-> w]
Abs(x)     == IF x < 0 THEN -x ELSE x
Ones(n)    == [i \in 1..n |-> 1]

\* an alignment that pads with zeros instead of 1.0
_align_weights_zero_pad(weights, n_estimators) ==
    IF weights.null THEN None_w
    ELSE LET w0 == weights.w
             w  == IF Len(w0) < n_estimators
                   THEN w0 \o [i \in 1..(n_estimators - Len(w0)) |-> 0]
                   ELSE IF Len(w0) > n_estimators
                   THEN SubSeq(w0, 1, n_estimators)
                   ELSE w0
         IN  Some(IF SumSeq([i \in DOMAIN w |-> Abs(w[i])]) = 0
                  THEN Ones(n_estimators) ELSE w)
_align_weights(weights, n_estimators) ==
    IF weights.null THEN None_w
    ELSE LET w0 == weights.w
             w  == IF Len(w0) < n_estimators
                   THEN w0 \o Ones(n_estimators - Len(w0))
                   ELSE IF Len(w0) > n_estimators
                   THEN SubSeq(w0, 1, n_estimators)
                   ELSE w0
         IN  Some(IF SumSeq([i \in DOMAIN w |-> Abs(w[i])]) = 0
                  THEN Ones(n_estimators) ELSE w)

\* build_base_estimators: xgb is whether the fourth estimator is built
build_base_estimators(xgb) ==
    <<"lr", "dt", "rf">> \o (IF xgb THEN <<"xgb">> ELSE <<>>)

\* dicts of tuned parameters: None, {}, or keys with their values
NoDict == [none |-> TRUE, keys |-> {}, weights |-> None_w]
Dict(keys, weights) == [none |-> FALSE, keys |-> keys, weights |-> weights]
truthy(d) == ~d.none /\ d.keys # {}

\* build_ensemble(params=params) with best stored at BEST_PARAMS_PATH: the
\* weights given to VotingClassifier and the parameters set afterwards
build_ensemble(params, best, xgb) ==
    LET estimators == build_base_estimators(xgb)
        tuned0 == IF truthy(params) THEN params
                  ELSE IF truthy(best) THEN best ELSE Dict({}, None_w)
        tuned  == IF "clf__weights" \in tuned0.keys
                  THEN [tuned0 EXCEPT !.weights =
                           _align_weights(@, Len(estimators))]
                  ELSE tuned0
    IN  [estimators |-> estimators,
         weights |-> IF "clf__weights" \in tuned.keys THEN tuned.weights
                     ELSE None_w,
         set_params |-> tuned.keys \ {"clf__weights"}]

NoEnsemble(params, best) ==
    [fn |-> "none", params |-> params, best |-> best, n |-> 0,
     aligned |-> None_w, voter |-> <<>>]

\* a call _align_weights(params["clf__weights"], n)
AlignWeights(n) ==
    /\ ensemble.fn = "none" /\ "clf__weights" \in ensemble.params.keys
    /\ ensemble' = [ensemble EXCEPT !.fn = "_align_weights", !.n = n,
                      !.aligned = _align_weights(ensemble.params.weights, n)]
    /\ UNCHANGED <<dataVars, rollVars, splitVars, predictVars, evalVars,
                   pipeVars, artifact, betVars, auxVars>>

\* a call build_ensemble(params=params)
BuildEnsemble(xgb) ==
    /\ ensemble.fn = "none"
    /\ ensemble' = [ensemble EXCEPT !.fn = "build_ensemble",
                      !.voter = build_ensemble(ensemble.params,
                                               ensemble.best, xgb)]
    /\ UNCHANGED <<dataVars, rollVars, splitVars, predictVars, evalVars,
                   pipeVars, artifact, betVars, auxVars>>

\* weight vectors, and the dicts passed as params or stored as best params
WeightLists == {<<>>} \cup SeqsUpTo({-1, 0, 1}, MaxWeights)
ParamDicts ==
    {NoDict, Dict({}, None_w), Dict({"clf__rf__max_depth"}, None_w)}
    \cup {Dict({"clf__weights"} \cup k, Some(w)) :
             k \in SUBSET {"clf__rf__max_depth"}, w \in WeightLists}
BestParams ==
    {NoDict, Dict({"clf__rf__max_depth"}, None_w),
     Dict({"clf__weights"}, None_w),
     Dict({"clf__weights"}, Some(<<0, 0, 0, 0, 0>>)),
     Dict({"clf__weights", "clf__rf__max_depth"}, Some(<<2, 1>>))}

InitEnsemble ==
    /\ \E params \in ParamDicts, best \in BestParams :
          ensemble = NoEnsemble(params, best)
    /\ artifact = <<>>
    /\ schedules = <<>> /\ market = <<>> /\ weather = <<>> /\ qb = <<>>
    /\ epa = <<>> /\ call = <<>>
    /\ CoreIdle /\ EvalIdle /\ PipeIdle /\ BetIdle /\ AuxIdle

NextEnsemble ==
    \/ \E n \in 0..(MaxWeights - 1) : AlignWeights(n)
    \/ \E xgb \in BOOLEAN : BuildEnsemble(xgb)

SpecEnsemble == InitEnsemble /\ [][NextEnsemble]_vars


(***************************************************************************)
(* The betting simulation (src/src/eval_betting.py).  Prices, stakes and   *)
(* profits are exact fractions; a missing moneyline is NaN.                *)
(***************************************************************************)
MaxBets   == 2    \* picks handed to simulate_bets
MaxEquity == 5    \* length of an equity sequence

\* 1.0 + (100.0 / -o if o < 0 else o / 100.0)
american_to_decimal(odds) ==
    IF odds = NaN THEN NaNF
    ELSE AddF(Frac(1, 1),
              IF odds < 0 THEN Norm(100, -odds) ELSE Norm(odds, 100))
\* a conversion that takes the favourite's formula for the underdog
american_to_implied_swapped(odds) ==
    IF odds = NaN THEN NaNF
    ELSE IF odds > 0 THEN Norm(odds, odds + 100) ELSE Norm(100, 100 - odds)
\* (100.0 / (o + 100.0)) if o > 0 else ((-o) / ((-o) + 100.0))
american_to_implied(odds) ==
    IF odds = NaN THEN NaNF
    ELSE IF odds > 0 THEN Norm(100, odds + 100) ELSE Norm(-odds, 100 - odds)
\* stake * (dec - 1.0) if win else -stake
settle_profit(stake, odds, win) ==
    IF win THEN MulF(stake, SubF(american_to_decimal(odds), Frac(1, 1)))
    ELSE SubF(Frac(0, 1), stake)

\* peaks taken over the whole sequence
maximum_all(arr) ==
    [i \in DOMAIN arr |->
        CHOOSE m \in Range(arr) : \A x \in Range(arr) : LeF(x, m)]
\* np.maximum.accumulate(arr)
maximum_accumulate(arr) ==
    [i \in DOMAIN arr |->
        CHOOSE m \in {arr[j] : j \in 1..i} : \A j \in 1..i : LeF(arr[j], m)]
\* max_drawdown: the least of arr - peaks; min of an empty array raises
max_drawdown(equity) ==
    LET peaks     == maximum_accumulate(equity)
        drawdowns == [i \in DOMAIN equity |-> SubF(equity[i], peaks[i])]
    IN  IF equity = <<>> THEN NaNF
        ELSE CHOOSE d \in Range(drawdowns) :
                 \A x \in Range(drawdowns) : LeF(d, x)

\* a stake that is not floored
no_clip(f_star) == f_star
\* f_star.clip(lower=0)
clip_lower0(f_star) == IF LtF(f_star, Frac(0, 1)) THEN Frac(0, 1) ELSE f_star

\* the Kelly fraction (b * p - q) / b of a pick (lines 86-91)
kelly_fraction(ml_pick, p) ==
    LET b == SubF(american_to_decimal(ml_pick), Frac(1, 1))
        q == SubF(Frac(1, 1), p)
    IN  clip_lower0(DivF(SubF(MulF(b, p), q), b))
\* the stake of a pick (lines 84-96)
stake_of(r, kelly, flat) ==
    IF LtF(Frac(0, 1), kelly) THEN MulF(kelly, kelly_fraction(r.ml_pick, r.team_prob_win))
    ELSE IF LtF(Frac(0, 1), flat) THEN flat
    ELSE Frac(1, 1)

RECURSIVE cumsum(_)
cumsum(s) ==
    IF s = <<>> THEN <<>>
    ELSE LET front == cumsum(SubSeq(s, 1, Len(s) - 1))
         IN  Append(front, IF front = <<>> THEN s[1]
                           ELSE AddF(front[Len(front)], s[Len(s)]))

\* a filter that looks at the moneyline only
qualifies_any(r, min_edge) == r.ml_pick # NaN
\* df["ml_pick"].notna() & (df["edge"] >= min_edge): a comparison with a
\* missing edge is false
qualifies(r, min_edge) ==
    r.ml_pick # NaN /\ ~IsNaNF(r.edge) /\ LeF(min_edge, r.edge)

\* the bets of simulate_bets with their stakes and profits (lines 75-102)
bets_of(picks_mkt, min_edge, kelly, flat) ==
    LET df0 == [i \in DOMAIN picks_mkt |->
                  LET p_imp == american_to_implied(picks_mkt[i].ml_pick)
                  IN  picks_mkt[i] @@
                      [p_imp |-> p_imp,
                       edge |-> IF IsNaNF(p_imp) THEN NaNF
                                ELSE SubF(picks_mkt[i].team_prob_win, p_imp)]]
        df  == SelectSeq(df0, LAMBDA r : qualifies(r, min_edge))
    IN  [i \in DOMAIN df |->
            LET stake == stake_of(df[i], kelly, flat)
            IN  df[i] @@ [stake |-> stake,
                          profit |-> settle_profit(stake, df[i].ml_pick,
                                                   df[i].won = 1)]]
\* simulate_bets: the bets, roi, total_staked, hit rate and max drawdown
simulate_result(df) ==
    LET total_staked == SumF([i \in DOMAIN df |-> df[i].stake])
        profit == SumF([i \in DOMAIN df |-> df[i].profit])
        equity == cumsum([i \in DOMAIN df |-> df[i].profit])
    IN  IF df = <<>>
        THEN [bets |-> df, roi |-> Frac(0, 1), total_staked |-> Frac(0, 1),
              hit |-> Frac(0, 1), mdd |-> Frac(0, 1)]
        ELSE [bets |-> df,
              roi |-> IF LtF(Frac(0, 1), total_staked)
                      THEN DivF(profit, total_staked) ELSE Frac(0, 1),
              total_staked |-> total_staked,
              hit |-> Norm(SumSeq([i \in DOMAIN df |-> df[i].won]), Len(df)),
              mdd |-> max_drawdown(equity)]
simulate_bets(picks_mkt, min_edge, kelly, flat) ==
    UNION {{simulate_result(df)} : df \in {bets_of(picks_mkt, min_edge, kelly, flat)}}

NoSim(picks_mkt, min_edge, kelly, flat) ==
    [status |-> "idle", picks_mkt |-> picks_mkt, min_edge |-> min_edge,
     kelly |-> kelly, flat |-> flat, out |-> <<>>]

\* simulate_bets(picks_mkt, args.min_edge, args.kelly, args.flat) (main)
SimulateBets ==
    /\ sim.status = "idle"
    /\ \E out \in simulate_bets(sim.picks_mkt, sim.min_edge, sim.kelly, sim.flat) :
          sim' = [sim EXCEPT !.status = "returned", !.out = out]
    /\ UNCHANGED <<dataVars, rollVars, splitVars, predictVars, evalVars,
                   pipeVars, modelVars, mdd, auxVars>>

\* picks with the moneyline of the picked side: favourite, even money,
\* underdog, or no line; the model gives 2/5 or 3/5
PickMktRows ==
    {[team_prob_win |-> p, ml_pick |-> ml, won |-> w] :
        p \in {Frac(2, 5), Frac(3, 5)}, ml \in {-150, 100, 150, NaN},
        w \in {0, 1}}
PickMktTables == {<<>>} \cup SeqsUpTo(PickMktRows, MaxBets)

InitBets ==
    /\ \E picks_mkt \in PickMktTables,
          min_edge \in {Frac(-1, 2), Frac(1, 50)},
          kelly \in {Frac(-1, 1), Frac(0, 1), Frac(1, 2), Frac(1, 1)},
          flat \in {Frac(0, 1), Frac(2, 1)} :
          sim = NoSim(picks_mkt, min_edge, kelly, flat)
    /\ mdd = <<>>
    /\ schedules = <<>> /\ market = <<>> /\ weather = <<>> /\ qb = <<>>
    /\ epa = <<>> /\ call = <<>>
    /\ CoreIdle /\ EvalIdle /\ PipeIdle /\ ModelIdle /\ AuxIdle

NextBets == SimulateBets

SpecBets == InitBets /\ [][NextBets]_vars

\* a call max_drawdown(equity) on a sequence of whole units
NoDrawdown(equity) == [status |-> "idle", equity |-> equity, out |-> NaNF]
MaxDrawdown ==
    /\ mdd.status = "idle"
    /\ mdd' = [mdd EXCEPT
                  !.status = IF mdd.equity = <<>> THEN "raised" ELSE "returned",
                  !.out = max_drawdown([i \in DOMAIN mdd.equity |->
                                           Frac(mdd.equity[i], 1)])]
    /\ UNCHANGED <<dataVars, rollVars, splitVars, predictVars, evalVars,
                   pipeVars, modelVars, sim, auxVars>>

InitDrawdown ==
    /\ \E equity \in {<<>>} \cup SeqsUpTo(-1..3, MaxEquity) :
          mdd = NoDrawdown(equity)
    /\ sim = <<>>
    /\ schedules = <<>> /\ market = <<>> /\ weather = <<>> /\ qb = <<>>
    /\ epa = <<>> /\ call = <<>>
    /\ CoreIdle /\ EvalIdle /\ PipeIdle /\ ModelIdle /\ AuxIdle

NextDrawdown == MaxDrawdown

SpecDrawdown == InitDrawdown /\ [][NextDrawdown]_vars


(***************************************************************************)
(* One fold of backtest on its own: the rows of a test season are scored,  *)
(* collapsed to one side per game and turned into the fold's metrics       *)
(* (src/src/eval_backtest.py, lines 44-58).                                *)
(***************************************************************************)
MaxFoldGames == 2    \* games of the test season

\* the rows of a test season in the dataset: the home views, then the away
\* views, with the targets build_row gives them
test_rows(home_wins) ==
    [i \in DOMAIN home_wins |->
        [game_id |-> i, season |-> 2, home |-> 1, team_win |-> home_wins[i]]]
    \o [i \in DOMAIN home_wins |->
        [game_id |-> i, season |-> 2, home |-> 0,
         team_win |-> away_win(home_wins[i])]]

NoFold(test_df) ==
    [status |-> "idle", test_df |-> test_df, best |-> <<>>, metrics |-> <<>>]

\* the body of the loop of backtest for one fold
ScoreFold ==
    /\ scored.status = "idle"
    /\ \E proba \in predict_proba(scored.test_df) :
          \E best \in {best_per_game(scored.test_df, proba)} :
              scored' = [scored EXCEPT
                  !.status  = "scored",
                  !.best    = best,
                  !.metrics = fold_metrics(2, best,
                      [i \in DOMAIN best |-> IF best[i].team_win = 1 THEN 1 ELSE 0],
                      [i \in DOMAIN best |-> best[i].team_prob_win])]
    /\ UNCHANGED <<dataVars, rollVars, splitVars, predictVars, evalVars,
                   pipeVars, modelVars, betVars, conv, bins, betrun, trial>>

InitScore ==
    /\ \E home_wins \in SeqsUpTo({0, 1}, MaxFoldGames) :
          scored = NoFold(test_rows(home_wins))
    /\ conv = <<>> /\ bins = <<>> /\ betrun = <<>> /\ trial = <<>>
    /\ schedules = <<>> /\ market = <<>> /\ weather = <<>> /\ qb = <<>>
    /\ epa = <<>> /\ call = <<>>
    /\ CoreIdle /\ EvalIdle /\ PipeIdle /\ ModelIdle /\ BetIdle

NextScore == ScoreFold

SpecScore == InitScore /\ [][NextScore]_vars


(***************************************************************************)
(* The paths that fit a voting ensemble: build_ensemble() in the Training  *)
(* CLI, the Backtest CLI and the legacy evaluation, and a trial of the     *)
(* Tuning CLI (src/src/tune.py), which clones build_ensemble(params={})    *)
(* and sets the suggested parameters on it.                                *)
(***************************************************************************)
MaxSuggest == 2    \* trial.suggest_float("w_..", 0.0, 2.0), in whole units

\* the weights of _suggest_params: sampled, all-zero made uniform, then
\* normalised to sum 1
suggest_weights(w_lr, w_dt, w_rf) ==
    LET w0 == <<w_lr, w_dt, w_rf>>
        w  == IF w_lr + w_dt + w_rf = 0 THEN <<1, 1, 1>> ELSE w0
    IN  [i \in 1..3 |-> Norm(w[i], w[1] + w[2] + w[3])]

\* _suggest_params: the keys it sets and the weight vector
_suggest_params(w_lr, w_dt, w_rf) ==
    Dict({"clf__lr__C", "clf__dt__max_depth", "clf__rf__max_depth",
          "clf__weights"},
         Some(suggest_weights(w_lr, w_dt, w_rf)))

\* m.set_params(**params) on a pipeline built by build_ensemble
set_params(m, params) ==
    [m EXCEPT !.weights = IF "clf__weights" \in params.keys
                          THEN params.weights ELSE @,
              !.set_params = @ \cup (params.keys \ {"clf__weights"})]

\* VotingClassifier.fit validates the weights against the estimators
fit(m) ==
    IF ~m.weights.null /\ Len(m.weights.w) # Len(m.estimators)
    THEN "ValueError" ELSE "fitted"

NoTrial(path, xgb, best) ==
    [status |-> "idle", path |-> path, xgb |-> xgb, best |-> best, m |-> <<>>]

\* model = build_ensemble(); model.fit(...) of the path the run was started on
FitDefault(path) ==
    /\ trial.status = "idle" /\ trial.path = path
    /\ \E m \in {build_ensemble(NoDict, trial.best, trial.xgb)} :
          trial' = [trial EXCEPT !.status = fit(m), !.m = m]
    /\ UNCHANGED <<dataVars, rollVars, splitVars, predictVars, evalVars,
                   pipeVars, modelVars, betVars, conv, bins, betrun,
                   scored>>

\* src/src/train.py main
TrainPathFit == FitDefault("train")
\* src/src/eval_backtest.py backtest, one fold
BacktestFit == FitDefault("backtest")
\* src/src/evaluate.py rolling_backtest, one test season
EvaluateFit == FitDefault("evaluate")

\* objective(trial) of src/src/tune.py main
Objective ==
    /\ trial.status = "idle" /\ trial.path = "tune"
    /\ \E w_lr \in 0..MaxSuggest, w_dt \in 0..MaxSuggest, w_rf \in 0..MaxSuggest :
          \E m \in {set_params(build_ensemble(Dict({}, None_w), trial.best,
                                              trial.xgb),
                               _suggest_params(w_lr, w_dt, w_rf))} :
              trial' = [trial EXCEPT !.status = fit(m), !.m = m]
    /\ UNCHANGED <<dataVars, rollVars, splitVars, predictVars, evalVars,
                   pipeVars, modelVars, betVars, conv, bins, betrun,
                   scored>>

InitFit ==
    /\ \E path \in {"train", "backtest", "evaluate", "tune"},
          xgb \in BOOLEAN, best \in BestParams :
          trial = NoTrial(path, xgb, best)
    /\ conv = <<>> /\ bins = <<>> /\ betrun = <<>> /\ scored = <<>>
    /\ schedules = <<>> /\ market = <<>> /\ weather = <<>> /\ qb = <<>>
    /\ epa = <<>> /\ call = <<>>
    /\ CoreIdle /\ EvalIdle /\ PipeIdle /\ ModelIdle /\ BetIdle

NextFit == TrainPathFit \/ BacktestFit \/ EvaluateFit \/ Objective

SpecFit == InitFit /\ [][NextFit]_vars


(***************************************************************************)
(* The Betting Simulation CLI from the picks table onwards: the simulation *)
(* and the table written to reports/bets.csv.                              *)
(***************************************************************************)
MaxBetGames == 2    \* games of the simulated season

\* bets_out.sort_values(["week","gameday"]) (lexsort, stable)
sort_week_gameday(df) ==
    LET idx == SortSeq([i \in DOMAIN df |-> i], LAMBDA i, j :
                   \/ df[i].week < df[j].week
                   \/ df[i].week = df[j].week /\ df[i].gameday < df[j].gameday
                   \/ /\ df[i].week = df[j].week
                      /\ df[i].gameday = df[j].gameday
                      /\ i < j)
    IN  [k \in DOMAIN df |-> df[idx[k]]]

NoBetRun(picks_mkt, min_edge) ==
    [status |-> "idle", picks_mkt |-> picks_mkt, min_edge |-> min_edge,
     handed |-> <<>>, equity |-> <<>>, mdd |-> Frac(0, 1), bets_out |-> <<>>]

\* main: simulate_bets on the picks as pick_table_for_season ordered them,
\* then the bets sorted for the CSV and the equity curve
BettingMain ==
    /\ betrun.status = "idle"
    /\ \E out \in simulate_bets(betrun.picks_mkt, betrun.min_edge,
                                Frac(0, 1), Frac(1, 1)) :
          betrun' = [betrun EXCEPT
              !.status   = "returned",
              !.handed   = out.bets,
              !.equity   = cumsum([i \in DOMAIN out.bets |-> out.bets[i].profit]),
              !.mdd      = out.mdd,
              !.bets_out = sort_week_gameday(out.bets)]
    /\ UNCHANGED <<dataVars, rollVars, splitVars, predictVars, evalVars,
                   pipeVars, modelVars, betVars, conv, bins, trial,
                   scored>>

\* one pick per game, in game_id order (sort_values(["game_id", ...]) and
\* groupby(...).head(1) of pick_table_for_season), with the schedule's
\* week and gameday and the moneyline of the picked side
SeasonPicks ==
    LET Row(g) == [game_id : {g}, week : {1}, gameday : 1..2,
                   team_prob_win : {Frac(2, 5), Frac(3, 5)},
                   ml_pick : {-150, 150, NaN}, won : {0, 1}]
    IN  {<<>>} \cup
        UNION {{<<r>> : r \in Row(g)} : g \in 1..MaxBetGames} \cup
        UNION {{<<r1, r2>> : r1 \in Row(gg[1]), r2 \in Row(gg[2])} :
                  gg \in {p \in (1..MaxBetGames) \X (1..MaxBetGames) :
                             p[1] < p[2]}}

InitRun ==
    /\ \E picks_mkt \in SeasonPicks, min_edge \in {Frac(-1, 2), Frac(1, 50)} :
          betrun = NoBetRun(picks_mkt, min_edge)
    /\ conv = <<>> /\ bins = <<>> /\ trial = <<>> /\ scored = <<>>
    /\ schedules = <<>> /\ market = <<>> /\ weather = <<>> /\ qb = <<>>
    /\ epa = <<>> /\ call = <<>>
    /\ CoreIdle /\ EvalIdle /\ PipeIdle /\ ModelIdle /\ BetIdle

NextRun == BettingMain

SpecRun == InitRun /\ [][NextRun]_vars


(***************************************************************************)
(* The odds conversions of src/src/eval_betting.py and src/src/data.py     *)
(* applied to one moneyline.                                               *)
(***************************************************************************)
MaxMoneyline == 200    \* moneylines run from -MaxMoneyline to MaxMoneyline

NoConv(odds) ==
    [status |-> "idle", odds |-> odds, implied |-> NaNF,
     implied_prob |-> NaNF, decimal |-> NaNF]

\* american_to_implied(o), _american_to_implied_prob(pd.Series([o]))[0] and
\* american_to_decimal(o)
ConvertOdds ==
    /\ conv.status = "idle"
    /\ conv' = [conv EXCEPT
                   !.status = "returned",
                   !.implied = american_to_implied(conv.odds),
                   !.implied_prob = _american_to_implied_prob(conv.odds),
                   !.decimal = american_to_decimal(conv.odds)]
    /\ UNCHANGED <<dataVars, rollVars, splitVars, predictVars, evalVars,
                   pipeVars, modelVars, betVars, bins, betrun, trial,
                   scored>>

InitOdds ==
    /\ \E odds \in (-MaxMoneyline..MaxMoneyline) \cup {NaN} :
          conv = NoConv(odds)
    /\ bins = <<>> /\ betrun = <<>> /\ trial = <<>> /\ scored = <<>>
    /\ schedules = <<>> /\ market = <<>> /\ weather = <<>> /\ qb = <<>>
    /\ epa = <<>> /\ call = <<>>
    /\ CoreIdle /\ EvalIdle /\ PipeIdle /\ ModelIdle /\ BetIdle

NextOdds == ConvertOdds

SpecOdds == InitOdds /\ [][NextOdds]_vars


(***************************************************************************)
(* The calibration table (src/src/eval_calibration.py).  A prediction is a *)
(* whole number u of steps of 1/Grid; the edges of n_bins buckets are the  *)
(* numbers k/n_bins.  Where a prediction equals an inner edge as a real    *)
(* number, the doubles of np.linspace may lie on either side of it, and    *)
(* both outcomes are kept.                                                 *)
(***************************************************************************)
Grid     == 20    \* predictions are u/Grid, u in 0..Grid
MaxPreds == 2     \* predictions of a drawn table
MaxBins  == 10    \* n_bins runs from 1 to MaxBins

\* a cut without include_lowest
cut_open(u, n_bins) ==
    IF \E k \in 1..(n_bins - 1) : k * Grid = u * n_bins
    THEN {Cardinality({k \in 0..n_bins : k * Grid < u * n_bins}) + d :
              d \in {0, 1}}
    ELSE {Cardinality({k \in 0..n_bins : k * Grid < u * n_bins})}
\* pd.cut(y_prob, edges, include_lowest=True) of one prediction: the number
\* of the bucket (edges[id-1], edges[id]], 0 for a missing bucket
cut(u, n_bins) ==
    LET ids == Cardinality({k \in 0..n_bins : k * Grid < u * n_bins})
    IN  IF u = 0 THEN {1}
        ELSE IF \E k \in 1..(n_bins - 1) : k * Grid = u * n_bins
        THEN {ids, ids + 1}
        ELSE IF ids = n_bins + 1 THEN {0}
        ELSE {ids}

\* the buckets of all predictions
RECURSIVE cuts(_, _)
cuts(y_prob, n_bins) ==
    IF y_prob = <<>> THEN {<<>>}
    ELSE {Append(ids, id) :
             ids \in cuts(SubSeq(y_prob, 1, Len(y_prob) - 1), n_bins),
             id \in cut(y_prob[Len(y_prob)], n_bins)}

\* the interval of bucket id: the first one is opened 0.001 to the left
bin_left(id, n_bins) ==
    IF id = 1 THEN Frac(-1, 1000) ELSE Norm(id - 1, n_bins)
bin_right(id, n_bins) == Norm(id, n_bins)

\* df.groupby("bin", observed=True).agg(...).reset_index() with bin_center,
\* for the buckets ids gives to the predictions
grouped_bins(y_true, y_prob, n_bins, ids) ==
    LET seen == SortSeq(SetToSeq({ids[i] : i \in DOMAIN ids} \ {0}),
                        LAMBDA a, b : a < b)
    IN  [j \in DOMAIN seen |->
            LET rows == {i \in DOMAIN ids : ids[i] = seen[j]}
                in   == SelectSeq([i \in DOMAIN ids |-> i],
                                  LAMBDA i : i \in rows)
            IN  [bin |-> seen[j],
                 count |-> Cardinality(rows),
                 mean_pred |-> Norm(SumSeq([i \in DOMAIN in |-> y_prob[in[i]]]),
                                    Grid * Cardinality(rows)),
                 mean_true |-> Norm(SumSeq([i \in DOMAIN in |-> y_true[in[i]]]),
                                    Cardinality(rows)),
                 bin_center |-> DivF(AddF(bin_left(seen[j], n_bins),
                                          bin_right(seen[j], n_bins)),
                                     Frac(2, 1))]]

\* _calibration_bins(y_true, y_prob, n_bins): every table the doubles allow
_calibration_bins(y_true, y_prob, n_bins) ==
    {grouped_bins(y_true, y_prob, n_bins, ids) : ids \in cuts(y_prob, n_bins)}

NoBins(y_true, y_prob, n_bins) ==
    [status |-> "idle", y_true |-> y_true, y_prob |-> y_prob,
     n_bins |-> n_bins, grouped |-> <<>>]

CalibrationBins ==
    /\ bins.status = "idle"
    /\ \E grouped \in _calibration_bins(bins.y_true, bins.y_prob, bins.n_bins) :
          bins' = [bins EXCEPT !.status = "returned", !.grouped = grouped]
    /\ UNCHANGED <<dataVars, rollVars, splitVars, predictVars, evalVars,
                   pipeVars, modelVars, betVars, conv, betrun, trial,
                   scored>>

\* the predictions 0.05, 0.15, ..., 0.95
MidPoints == [i \in 1..10 |-> ((2 * i - 1) * Grid) \div 20]

InitBins ==
    /\ \E y_prob \in {<<>>, MidPoints} \cup SeqsUpTo(0..Grid, MaxPreds),
          won \in {0, 1}, n_bins \in 1..MaxBins :
          bins = NoBins([i \in DOMAIN y_prob |-> won], y_prob, n_bins)
    /\ conv = <<>> /\ betrun = <<>> /\ trial = <<>> /\ scored = <<>>
    /\ schedules = <<>> /\ market = <<>> /\ weather = <<>> /\ qb = <<>>
    /\ epa = <<>> /\ call = <<>>
    /\ CoreIdle /\ EvalIdle /\ PipeIdle /\ ModelIdle /\ BetIdle

NextBins == CalibrationBins

SpecBins == InitBins /\ [][NextBins]_vars


(***************************************************************************)
(* Properties of the Dataset Builder.                                      *)
(***************************************************************************)
Returned == call.status = "returned"
\* the rows of the returned table for game g, of one perspective
RowsOfGame(ds, g) == SelectSeq(ds, LAMBDA r : r.game_id = g)
ViewOfGame(ds, g, home_flag) ==
    SelectSeq(ds, LAMBDA r : r.game_id = g /\ r.home = home_flag)
Played(g) == schedules[g].home_score # NaN /\ schedules[g].away_score # NaN

\* the schedule with the final score of game h replaced
WithScore(sched, h, sc) ==
    [sched EXCEPT ![h].home_score = sc[1], ![h].away_score = sc[2]]

\* two rows carry the same values in the modelled feature columns
SameFeatures(r, q) ==
    /\ r.home = q.home
    /\ r.team_elo = q.team_elo /\ r.opp_elo = q.opp_elo
    /\ r.elo_diff = q.elo_diff
    /\ \A c \in FillCols : EqF(r[c], q[c])

\* C2: the features of the rows of a game g depend only on games played
\* strictly before g: replacing the final score of g or of a later game
\* leaves every feature of g's rows as it was.
C2_NoLeakage ==
    Returned =>
        \A g \in DOMAIN schedules, h \in DOMAIN schedules, sc \in Scores :
            (h >= g /\ Played(h)) =>
                LET alt == build_dataset(
                               [Source EXCEPT !.schedules = WithScore(schedules, h, sc)],
                               call.seasons, call.rolling_n)
                IN  \A f \in {0, 1} :
                        LET r == ViewOfGame(call.rows, g, f)
                            q == ViewOfGame(alt, g, f)
                        IN  Len(r) = Len(q)
                            /\ \A i \in DOMAIN r : SameFeatures(r[i], q[i])

\* C3: when the two teams of the first game both hold 1500 and one of them
\* wins, the winner's row has team_elo 1510 and elo_diff 20 and the loser's
\* row has team_elo 1490, whichever team code is the winner's.
C3_EloFirstGame ==
    (Returned /\ Played(1) /\ schedules[1].home_score # schedules[1].away_score) =>
        \A i \in DOMAIN call.rows :
            LET r == call.rows[i] IN
            r.game_id = 1 =>
                IF r.points_for > r.points_against
                THEN r.team_elo = 1510 * Centi /\ r.elo_diff = 20 * Centi
                ELSE r.team_elo = 1490 * Centi

\* C4: every completed game has exactly two rows in the returned table, one
\* with home = 1 and one with home = 0, and their team_win values sum to 1.
C4_TwoRowsPerGame ==
    Returned =>
        \A g \in DOMAIN schedules :
            Played(g) =>
                LET rs == RowsOfGame(call.rows, schedules[g].game_id) IN
                /\ Len(rs) = 2
                /\ {rs[1].home, rs[2].home} = {0, 1}
                /\ rs[1].team_win + rs[2].team_win = 1

\* the table holds both views of a completed game although a side-table
\* file holds more than one row for the game
C4_Witness ==
    /\ Returned
    /\ Len(market.rows) > 1
    /\ \E g \in DOMAIN schedules :
          /\ Played(g) /\ schedules[g].home_score > schedules[g].away_score
          /\ Len(RowsOfGame(call.rows, g)) = 2
          /\ \E h \in DOMAIN schedules : h # g /\ Played(h)

\* C5: in every returned row team_win is 1 exactly when the row's team
\* scored strictly more points than its opponent, also in tied games; games
\* without final scores have no target and no rows.
C5_TeamWinIffWon ==
    Returned =>
        \A i \in DOMAIN call.rows :
            LET r == call.rows[i]
                g == schedules[r.game_id]
            IN  /\ g.home_score # NaN /\ g.away_score # NaN
                /\ r.team_win = 1 <=>
                      IF r.home = 1 THEN g.home_score > g.away_score
                      ELSE g.away_score > g.home_score

\* C6: when a side-table toggle is on and the file holds a row for a game's
\* key, the row's values reach both rows of the game: the closing spread s as
\* team_spread = s, opp_spread = -s in the home row and negated in the away
\* row, the implied moneyline probabilities of team and opponent, and the
\* weather, QB-status and EPA values.
C6_SideValuesReachRows ==
    Returned =>
        \A i \in DOMAIN call.rows :
            LET r  == call.rows[i]
                g  == schedules[r.game_id]
                tm == IF r.home = 1 THEN g.home_team ELSE g.away_team
                sg == IF r.home = 1 THEN 1 ELSE -1
            IN  /\ \A k \in DOMAIN market.rows :
                      LET m == market.rows[k] IN
                      (USE_MARKET /\ m.game_id = r.game_id) =>
                          /\ EqF(r.team_spread, Frac(sg * m.close_spread_home, 1))
                          /\ EqF(r.opp_spread, Frac(-sg * m.close_spread_home, 1))
                          /\ EqF(r.team_ml_implied,
                                 _american_to_implied_prob(
                                     IF r.home = 1 THEN m.ml_home ELSE m.ml_away))
                          /\ EqF(r.opp_ml_implied,
                                 _american_to_implied_prob(
                                     IF r.home = 1 THEN m.ml_away ELSE m.ml_home))
                /\ \A k \in DOMAIN weather.rows :
                      (USE_WEATHER /\ weather.rows[k].game_id = r.game_id) =>
                          EqF(r.wind_mph, Frac(weather.rows[k].wind_mph, 1))
                /\ \A k \in DOMAIN qb.rows :
                      LET q == qb.rows[k] IN
                      (USE_QB /\ q.season = r.season /\ q.week = r.week /\ q.team = tm) =>
                          EqF(r.qb_changed, Frac(q.qb_changed, 1))
                /\ \A k \in DOMAIN epa.rows :
                      LET e == epa.rows[k] IN
                      (USE_EPA /\ e.season = r.season /\ e.week = r.week /\ e.team = tm) =>
                          EqF(r.off_epa_roll, Frac(e.off_epa_roll, 1))

\* the identifying columns of a table: game id, home flag and target
RowIds(ds) == [i \in DOMAIN ds |-> <<ds[i].game_id, ds[i].home, ds[i].team_win>>]
MissingStates == {"absent", "unreadable", "empty"}
SideNames == {"market", "weather", "qb", "epa"}
\* the source with each side-table file in the state st names for it
WithMissing(st) ==
    [schedules |-> schedules,
     market  |-> [status |-> st["market"],  rows |-> <<>>],
     weather |-> [status |-> st["weather"], rows |-> <<>>],
     qb      |-> [status |-> st["qb"],      rows |-> <<>>],
     epa     |-> [status |-> st["epa"],     rows |-> <<>>]]

\* C7: whichever of the four side-table files are absent, unreadable or
\* empty, build_dataset returns without raising, and with the same rows
\* (game ids, home flags, team_win) as it returns with the files present.
C7_MissingSideTablesHarmless ==
    /\ call.status # "raised"
    /\ Returned =>
          \A st \in [SideNames -> MissingStates] :
              /\ ~build_raises(WithMissing(st))
              /\ RowIds(build_dataset(WithMissing(st), call.seasons, call.rolling_n))
                    = RowIds(call.rows)

\* a table was built while one file was absent, one unreadable, one empty
\* and the market file held rows for the game
C7_Witness ==
    /\ Returned /\ call.rows # <<>> /\ Played(1)
    /\ market.status = "ok" /\ Len(market.rows) > 1
    /\ weather.status = "absent" /\ qb.status = "unreadable"
    /\ epa.status = "empty"


(***************************************************************************)
(* Properties of the picks and their summaries.                            *)
(***************************************************************************)
\* C8: every pick resolved for a game, in the final table of the Prediction
\* CLI and in the table compute_week_picks returns to the API handler, has a
\* confidence of at least 0.5, whatever probabilities the model gives to the
\* game's two rows.
C8_ConfidenceAtLeastHalf ==
    /\ (cli # NoRun /\ cli.status = "returned") =>
          \A i \in DOMAIN cli.out : fle(D(50), cli.out[i].confidence)
    /\ api # NoRun =>
          \A i \in DOMAIN api.df : fle(D(50), api.df[i].confidence)

\* C9: a request for a season and week without scheduled games raises on
\* neither path: the CLI returns with the notice and without loading the
\* model, and POST /predict answers with picks, top_confidence and
\* coin_flips all empty.
C9_EmptyWeekRaisesNothing ==
    week_matchups(schedules, request.season, request.week) = <<>> =>
        /\ cli # NoRun =>
              /\ cli.status = "returned" /\ cli.notice = "no_games"
              /\ ~cli.model_loaded /\ cli.out = <<>>
        /\ api # NoRun =>
              /\ api.status = "ok"
              /\ api.picks = <<>> /\ api.top_confidence = <<>>
              /\ api.coin_flips = <<>>

\* what identifies a pick in either path's output: matchup, pick, confidence
PickKey(r) ==
    IF "matchup" \in DOMAIN r THEN <<r.matchup, r.pick, r.confidence>>
    ELSE <<<<r.away_team, r.home_team>>, r.predicted_winner, r.confidence>>
Keys(t) == {PickKey(t[i]) : i \in DOMAIN t}
Least(a, b) == IF a <= b THEN a ELSE b
\* the band [0.5 - flip_band, 0.5 + flip_band] around one half
InBand(conf, band) ==
    fle(fsub(D(50), band), conf) /\ fle(conf, fadd(D(50), band))
\* t holds the k picks of highest confidence of df
IsTopOf(t, df, k) ==
    /\ Len(t) = Least(k, Len(df))
    /\ Cardinality(Keys(t)) = Len(t)
    /\ Keys(t) \subseteq Keys(df)
    /\ \A i \in DOMAIN t, j \in DOMAIN df :
          PickKey(df[j]) \notin Keys(t) => fle(df[j].confidence, t[i].confidence)
\* f holds exactly the picks of df in the band
IsFlipsOf(f, df, band) ==
    /\ Cardinality(Keys(f)) = Len(f)
    /\ Keys(f) = {PickKey(df[j]) : j \in {x \in DOMAIN df : InBand(df[x].confidence, band)}}

\* C10: for every pick list, top_k >= 0 and flip_band >= 0,
\* split_top_and_flips returns the min(top_k, n) picks of highest confidence
\* in descending order and exactly the picks with confidence in
\* [0.5 - flip_band, 0.5 + flip_band] in ascending order, and the Prediction
\* CLI selects the same two sets of picks.
C10_TopAndFlips ==
    /\ summary.api # NoSummary =>
          /\ IsTopOf(summary.api.top, picks_df, request.top_k)
          /\ \A i \in 1..(Len(summary.api.top) - 1) :
                fle(summary.api.top[i + 1].confidence, summary.api.top[i].confidence)
          /\ IsFlipsOf(summary.api.flips, picks_df, request.flip_band)
          /\ \A i \in 1..(Len(summary.api.flips) - 1) :
                fle(summary.api.flips[i].confidence, summary.api.flips[i + 1].confidence)
    /\ summary.cli # NoSummary =>
          /\ IsTopOf(summary.cli.top, picks_df, request.top_k)
          /\ IsFlipsOf(summary.cli.flips, picks_df, request.flip_band)
    /\ (summary.api # NoSummary /\ summary.cli # NoSummary) =>
          /\ Keys(summary.api.flips) = Keys(summary.cli.flips)
          /\ [i \in DOMAIN summary.api.top |-> summary.api.top[i].confidence]
                = [i \in DOMAIN summary.cli.top |-> summary.cli.top[i].confidence]


(***************************************************************************)
(* Properties of the rolling passes.                                       *)
(***************************************************************************)
\* game q is played before game r in (season, week) order
Before(q, r) == q.season < r.season \/ (q.season = r.season /\ q.week < r.week)
\* the games of r's team played strictly before r
PriorGames(df, r) == {q \in Range(df) : q.team = r.team /\ Before(q, r)}
\* the n latest games of a set of games
Latest(P, n) == {q \in P : Cardinality({p \in P : Before(q, p)}) < n}

RECURSIVE SumCol(_, _)
SumCol(S, col) ==
    IF S = {} THEN 0
    ELSE LET x == CHOOSE y \in S : TRUE IN x[col] + SumCol(S \ {x}, col)

\* the unweighted mean of col over the n latest games before r
PriorMean(df, r, col, n) ==
    LET W == Latest(PriorGames(df, r), n)
    IN  IF W = {} THEN NaNF ELSE Frac(SumCol(W, col), Cardinality(W))

RollColumns(fn) ==
    IF fn = "add_rolling_features"
    THEN {<<"team_pf_roll", "points_for">>, <<"team_pa_roll", "points_against">>}
    ELSE {<<"off_epa_roll", "off_epa_mean">>, <<"def_epa_roll", "def_epa_mean">>}

\* C1: every rolling column of add_rolling_features and of _rolling_shifted
\* holds, on a team's k-th game in (season, week) order, the unweighted mean
\* of the raw statistic over that team's games max(1, k-n) .. k-1, never of
\* game k or a later game, and is missing exactly on the team's first game.
C1_RollingUsesPriorGamesOnly ==
    rolled.fn # "none" =>
        /\ Len(rolled.rows) = Len(teamwk)
        /\ \A i \in DOMAIN rolled.rows : \A c \in RollColumns(rolled.fn) :
              LET r == rolled.rows[i] IN
              /\ EqF(r[c[1]], PriorMean(teamwk, r, c[2], rolled.n))
              /\ IsNaNF(r[c[1]]) <=> PriorGames(teamwk, r) = {}

\* a pass has run on a table in which some team has more earlier games than
\* the window holds, and the game itself differs from the windowed mean
C1_Witness ==
    /\ rolled.fn = "add_rolling_features"
    /\ \E i \in DOMAIN rolled.rows :
          LET r == rolled.rows[i] IN
          /\ Cardinality(PriorGames(teamwk, r)) > rolled.n
          /\ ~EqF(r.team_pf_roll, Frac(r.points_for, 1))
          /\ ~EqF(r.team_pf_roll,
                  PriorMean(teamwk, r, "points_for", rolled.n + 1))


(***************************************************************************)
(* Properties of the backtest and of the season folds.                     *)
(***************************************************************************)
\* every season of the span has a game in the schedule
AllHaveGames(seasons) ==
    \A t \in seasons : \E g \in DOMAIN schedules : schedules[g].season = t
\* the per-season rows of a report, and its last row
SeasonRows(rows) == SubSeq(rows, 1, Len(rows) - 1)
\* rows is N-1 per-season rows for the seasons after the first, ascending,
\* and a MEAN row with the summed games and the unweighted mean metrics
IsBacktestTable(rows, seasons) ==
    LET n    == Cardinality(seasons)
        per  == SeasonRows(rows)
        last == rows[Len(rows)]
        avg(col) == DivF(SumF([i \in DOMAIN per |-> per[i][col]]),
                         Frac(n - 1, 1))
    IN  /\ Len(rows) = n
        /\ \A k \in DOMAIN per : per[k].season = Min(seasons) + k
        /\ last.season = MEAN
        /\ last.games = SumSeq([i \in DOMAIN per |-> per[i].games])
        /\ n > 1 => /\ EqF(last.accuracy, avg("accuracy"))
                    /\ EqF(last.log_loss, avg("log_loss"))
                    /\ EqF(last.brier, avg("brier"))

\* C11: for a span of N seasons that all have games, backtest returns
\* exactly N-1 per-season rows, one for each season except the first in
\* ascending order, followed by one MEAN row whose games is the sum of the
\* per-season games and whose accuracy, log_loss and brier are the
\* unweighted means of the per-season values.
C11_BacktestRows ==
    (report.status # "idle" /\ AllHaveGames(report.seasons)) =>
        /\ report.status = "returned"
        /\ IsBacktestTable(report.rows, report.seasons)

\* the rows of the table that a fold generator was given, by season
RowsBefore(t) == {i \in DOMAIN folds.df : folds.df[i].season < t}
RowsOf(t)     == {i \in DOMAIN folds.df : folds.df[i].season = t}
FoldsYielded  == folds.fn # "none" /\ folds.list # Raised

\* C12: in every fold generated by the Backtest CLI and by the Tuning CLI
\* for a test season t, the training set is exactly the dataset rows with
\* season < t and the test set is exactly the rows with season = t; no row
\* is in both, and no row of season t or later is among the rows the model
\* scored on season t is fitted on.
C12_FoldsSplitBySeason ==
    FoldsYielded =>
        \A k \in DOMAIN folds.list :
            LET f == folds.list[k]
            IN  /\ Range(f.train) = RowsBefore(f.t)
                /\ Range(f.test) = RowsOf(f.t)
                /\ Len(f.train) = Cardinality(RowsBefore(f.t))
                /\ Len(f.test) = Cardinality(RowsOf(f.t))
                /\ Range(f.train) \cap Range(f.test) = {}
                /\ \A j \in DOMAIN f.train : folds.df[f.train[j]].season < f.t
\* the Tuning CLI limited to its latest two folds, on a table of at least
\* five seasons
C12_Witness ==
    /\ folds.fn = "tune" /\ folds.list # Raised
    /\ folds.max_folds = 2 /\ Len(folds.list) = 2
    /\ Cardinality({folds.df[i].season : i \in DOMAIN folds.df}) >= 5

(***************************************************************************)
(* Properties of the collectors.                                           *)
(***************************************************************************)
\* the file of the collector that runs, and the game ids of a table
Collected == IF lastrun.tool = "odds" THEN market ELSE weather
IdsOf(rows) == {rows[i].game_id : i \in DOMAIN rows}
HasRun == lastrun.n > 0

\* C13: after any sequence of market-odds collector runs (and likewise
\* weather collector runs) against the same output CSV, the file holds
\* exactly one row per game id; a run whose fetched content is identical to
\* that of the previous run leaves the set of rows unchanged, and a run with
\* changed values for an existing game id replaces that row with the new
\* values instead of appending a second row.
C13_OneRowPerGame ==
    HasRun =>
        /\ Cardinality(IdsOf(Collected.rows)) = Len(Collected.rows)
        /\ lastrun.same => Range(Collected.rows) = Range(lastrun.before.rows)
        /\ \A k \in DOMAIN lastrun.matched :
              /\ lastrun.matched[k] \in Range(Collected.rows)
              /\ \A i \in DOMAIN Collected.rows :
                    Collected.rows[i].game_id = lastrun.matched[k].game_id
                        => Collected.rows[i] = lastrun.matched[k]
\* a third run that brings other values for a game the file already holds
C13_Witness ==
    /\ lastrun.n = MaxRuns /\ lastrun.status = "ran"
    /\ \E k \in DOMAIN lastrun.matched, i \in DOMAIN lastrun.before.rows :
          /\ lastrun.before.rows[i].game_id = lastrun.matched[k].game_id
          /\ lastrun.before.rows[i] # lastrun.matched[k]
    /\ Len(Collected.rows) = Len(lastrun.before.rows)

\* C14: a run of the market-odds collector or of the weather collector
\* never removes or alters a row of the persisted CSV whose game id is not
\* among the game ids matched in this run; when the run parses no rows or
\* matches no scheduled game, the file is left exactly as it was.
C14_UnmatchedRowsKept ==
    HasRun =>
        /\ \A i \in DOMAIN lastrun.before.rows :
              lastrun.before.rows[i].game_id \notin IdsOf(lastrun.matched)
                  => lastrun.before.rows[i] \in Range(Collected.rows)
        /\ lastrun.matched = <<>> => Collected = lastrun.before
\* a run that matched one game while the file held a row of another game
C14_Witness ==
    /\ HasRun /\ lastrun.matched # <<>>
    /\ \E i \in DOMAIN lastrun.before.rows :
          lastrun.before.rows[i].game_id \notin IdsOf(lastrun.matched)

(***************************************************************************)
(* Properties of the weekly orchestrator.                                  *)
(***************************************************************************)
\* s is a prefix of the sequence t
IsPrefix(s, t) == Len(s) <= Len(t) /\ s = SubSeq(t, 1, Len(s))
\* the commands main runs when the odds stage is run, and when it is not
AllStages   == Stages
AfterOdds   == Tail(Stages)
PipelineUp  == pipeline # <<>>
StagesToRun == IF getenv_truthy(pipeline.key) THEN AllStages ELSE AfterOdds

\* C15: the stages run strictly one at a time in the order odds, weather,
\* QB status, efficiency, train, predict; a stage is started only after
\* every earlier non-skipped stage has exited with status zero, so once any
\* stage exits non-zero no later stage is ever started and the orchestrator
\* itself fails.
C15_StagesSequential ==
    PipelineUp =>
        /\ IsPrefix(pipeline.started, StagesToRun)
        /\ Len(pipeline.exits) = Len(pipeline.started)
                                  - (IF pipeline.running = "none" THEN 0 ELSE 1)
        /\ pipeline.running # "none" =>
              /\ pipeline.running = pipeline.started[Len(pipeline.started)]
              /\ \A k \in DOMAIN pipeline.exits : pipeline.exits[k] = 0
        /\ \A k \in DOMAIN pipeline.exits :
              pipeline.exits[k] # 0 =>
                  /\ k = Len(pipeline.started)
                  /\ pipeline.running = "none"
                  /\ pipeline.status = "failed"
        /\ pipeline.status = "done" =>
              /\ pipeline.started = StagesToRun
              /\ \A k \in DOMAIN pipeline.exits : pipeline.exits[k] = 0
\* the efficiency stage exited non-zero after three stages that succeeded
C15_Witness ==
    /\ PipelineUp /\ pipeline.status = "failed"
    /\ pipeline.started = SubSeq(Stages, 1, 4)
    /\ pipeline.exits[4] # 0

\* C16: the market-odds stage is run if and only if an odds API key is
\* configured (set and non-empty); when it is not, the odds stage is
\* skipped without failing the run and the remaining five stages are still
\* started in their fixed order.
C16_OddsStageIffKey ==
    (PipelineUp /\ pipeline.pc > 1) =>
        /\ ("fetch_odds" \in Range(pipeline.started)) <=> pipeline.key = "set"
        /\ pipeline.key # "set" =>
              /\ pipeline.skipped = <<"fetch_odds">>
              /\ IsPrefix(pipeline.started, AfterOdds)
              /\ (pipeline.status = "running" /\ pipeline.running = "none")
                    => Len(pipeline.started) = pipeline.pc - 2
              /\ pipeline.status = "failed" => pipeline.exits # <<>>
              /\ pipeline.status = "done" => pipeline.started = AfterOdds
\* the key is set to the empty string and the run finished with five stages
C16_Witness ==
    /\ PipelineUp /\ pipeline.key = "empty" /\ pipeline.status = "done"
    /\ Len(pipeline.started) = 5

(***************************************************************************)
(* Properties of the Training CLI and of the ensemble builder.             *)
(***************************************************************************)
TrainCompleted == artifact # <<>> /\ artifact.status = "done"

\* C17: whenever the Training CLI completes, the object last written to the
\* model artifact path is the calibrator-wrapped model, never the raw
\* fitted ensemble, for either value of the calibration toggle.
C17_ArtifactIsCalibrated ==
    TrainCompleted =>
        /\ artifact.writes # <<>>
        /\ artifact.writes[Len(artifact.writes)].kind = "calibrated"
        /\ artifact.file.kind = "calibrated"

\* v is w aligned to n entries: the first min(Len(w), n) entries of w, ones
\* for the missing entries, and n ones when that vector is all zero
IsAligned(v, w, n) ==
    LET m == IF Len(w) < n THEN Len(w) ELSE n
        padded == [i \in 1..n |-> IF i <= m THEN w[i] ELSE 1]
    IN  /\ Len(v) = n
        /\ IF \A i \in 1..n : padded[i] = 0 THEN v = Ones(n) ELSE v = padded
\* the dict build_ensemble takes its tuned parameters from
TunedOf(e) ==
    IF truthy(e.params) THEN e.params
    ELSE IF truthy(e.best) THEN e.best ELSE Dict({}, None_w)

\* C18: _align_weights(w, n) for a non-null w always returns a vector of
\* exactly n weights: the first min(len(w), n) entries are those of w,
\* missing entries are 1.0, surplus entries are dropped, and if all
\* resulting entries are zero the result is n ones; build_ensemble passes
\* this aligned vector, whose length equals the number of base estimators,
\* to the voting ensemble.
C18_AlignedWeights ==
    /\ (ensemble # <<>> /\ ensemble.fn = "_align_weights"
          /\ ~ensemble.params.weights.null) =>
            /\ ~ensemble.aligned.null
            /\ IsAligned(ensemble.aligned.w, ensemble.params.weights.w,
                         ensemble.n)
    /\ (ensemble # <<>> /\ ensemble.fn = "build_ensemble"
          /\ "clf__weights" \in TunedOf(ensemble).keys
          /\ ~TunedOf(ensemble).weights.null) =>
            /\ ~ensemble.voter.weights.null
            /\ IsAligned(ensemble.voter.weights.w, TunedOf(ensemble).weights.w,
                         Len(ensemble.voter.estimators))
\* build_ensemble with four estimators on two stored weights, -1 and 0: the
\* voter gets them padded with two ones
C18_Witness ==
    /\ ensemble # <<>> /\ ensemble.fn = "build_ensemble"
    /\ ensemble.params.keys = {"clf__weights"}
    /\ ensemble.params.weights.w = <<-1, 0>>
    /\ ensemble.voter.weights.w = <<-1, 0, 1, 1>>

(***************************************************************************)
(* Properties of the betting simulation.                                   *)
(***************************************************************************)
SimReturned == sim # <<>> /\ sim.status = "returned"
\* k * max(0, (b*p - q)/b) with b = decimal odds - 1 and q = 1 - p
KellyStake(k, ml, p) ==
    LET b == SubF(american_to_decimal(ml), Frac(1, 1))
        q == SubF(Frac(1, 1), p)
        f == DivF(SubF(MulF(b, p), q), b)
    IN  MulF(k, IF LtF(Frac(0, 1), f) THEN f ELSE Frac(0, 1))
NegativeEdge(ml, p) ==
    LET b == SubF(american_to_decimal(ml), Frac(1, 1))
    IN  LtF(MulF(b, p), SubF(Frac(1, 1), p))

\* C19: for every bet returned by simulate_bets the stake is non-negative;
\* when the Kelly multiplier k is positive the stake is
\* k * max(0, (b*p - q)/b) with b = decimal odds - 1, p the model
\* probability and q = 1 - p, so a probability/odds combination with
\* negative edge yields a stake of zero, never a negative stake.
C19_StakeNonNegative ==
    SimReturned =>
        \A i \in DOMAIN sim.out.bets :
            LET r == sim.out.bets[i]
            IN  /\ LeF(Frac(0, 1), r.stake)
                /\ LtF(Frac(0, 1), sim.kelly) =>
                      /\ EqF(r.stake, KellyStake(sim.kelly, r.ml_pick,
                                                 r.team_prob_win))
                      /\ NegativeEdge(r.ml_pick, r.team_prob_win)
                            => EqF(r.stake, Frac(0, 1))
\* a Kelly run that returned a bet on a favourite the model rates below the
\* break-even probability
C19_Witness ==
    /\ SimReturned /\ LtF(Frac(0, 1), sim.kelly)
    /\ \E i \in DOMAIN sim.out.bets :
          /\ NegativeEdge(sim.out.bets[i].ml_pick,
                          sim.out.bets[i].team_prob_win)
          /\ sim.out.bets[i].stake = Frac(0, 1)
    /\ \E i \in DOMAIN sim.out.bets : LtF(Frac(0, 1), sim.out.bets[i].stake)

DrawdownReturned == mdd # <<>> /\ mdd.status = "returned"
\* the largest of the first i entries of a sequence of integers
PeakAt(s, i) == CHOOSE m \in {s[j] : j \in 1..i} : \A j \in 1..i : s[j] <= m
\* the least of s[i] - PeakAt(s, i)
LeastDrop(s) ==
    CHOOSE d \in {s[i] - PeakAt(s, i) : i \in DOMAIN s} :
        \A i \in DOMAIN s : d <= s[i] - PeakAt(s, i)

\* C20: max_drawdown(equity) equals the minimum over positions i of
\* equity[i] minus the maximum of equity[0..i], for every non-empty
\* cumulative-profit sequence; the result is never positive and is zero
\* when the sequence never falls below an earlier value (e.g.
\* [1, 3, 2, -1, 0] gives -4).
C20_MaxDrawdown ==
    DrawdownReturned =>
        /\ mdd.out = Frac(LeastDrop(mdd.equity), 1)
        /\ mdd.out.num <= 0
        /\ (\A i, j \in DOMAIN mdd.equity :
               i < j => mdd.equity[i] <= mdd.equity[j]) => mdd.out = Frac(0, 1)
        /\ mdd.equity = <<1, 3, 2, -1, 0>> => mdd.out = Frac(-4, 1)
\* the sequence of the example with its drawdown
C20_Witness ==
    /\ DrawdownReturned /\ mdd.equity = <<1, 3, 2, -1, 0>>
    /\ mdd.out = Frac(-4, 1)

\* the picks given to simulate_bets that have a moneyline and an edge of at
\* least min_edge, in the order given
Qualifying ==
    SelectSeq(sim.picks_mkt, LAMBDA r :
        /\ r.ml_pick # NaN
        /\ LeF(sim.min_edge, SubF(r.team_prob_win,
                                  american_to_implied(r.ml_pick))))
BetPicks ==
    [i \in DOMAIN sim.out.bets |->
        Restrict(sim.out.bets[i], {"team_prob_win", "ml_pick", "won"})]

\* C21: every bet returned by simulate_bets has a non-missing moneyline and
\* an edge (model probability minus market-implied probability) of at least
\* min_edge, and every pick that satisfies both is returned as a bet; when
\* no pick qualifies, simulate_bets raises no error and returns an empty bet
\* list with ROI, total staked, hit rate and max drawdown all equal to zero.
C21_BetsAreQualifyingPicks ==
    (sim # <<>> /\ sim.status # "idle") =>
        /\ sim.status = "returned"
        /\ \A i \in DOMAIN sim.out.bets :
              /\ sim.out.bets[i].ml_pick # NaN
              /\ LeF(sim.min_edge, sim.out.bets[i].edge)
              /\ EqF(sim.out.bets[i].edge,
                     SubF(sim.out.bets[i].team_prob_win,
                          american_to_implied(sim.out.bets[i].ml_pick)))
        /\ BetPicks = Qualifying
        /\ Qualifying = <<>> =>
              /\ sim.out.bets = <<>>
              /\ sim.out.roi = Frac(0, 1) /\ sim.out.total_staked = Frac(0, 1)
              /\ sim.out.hit = Frac(0, 1) /\ sim.out.mdd = Frac(0, 1)
\* two picks, one without a moneyline and one below the threshold: no bet
C21_Witness ==
    /\ SimReturned /\ Len(sim.picks_mkt) = 2 /\ sim.out.bets = <<>>
    /\ sim.picks_mkt[1].ml_pick = NaN /\ sim.picks_mkt[2].ml_pick # NaN

(***************************************************************************)
(* Properties of the odds conversions.                                     *)
(***************************************************************************)
Converted == conv # <<>> /\ conv.status = "returned" /\ conv.odds # NaN
\* |a - b| <= 1/1000
Within001(a, b) ==
    /\ LeF(SubF(a, b), Frac(1, 1000)) /\ LeF(SubF(b, a), Frac(1, 1000))

\* C22: for every non-zero American moneyline o, american_to_implied(o) and
\* _american_to_implied_prob(o) both return 100/(o+100) when o > 0 and
\* |o|/(|o|+100) when o < 0, and american_to_decimal(o) returns 1 + o/100
\* when o > 0 and 1 + 100/|o| when o < 0 (so -150 gives 0.60 and 1.667,
\* +150 gives 0.40 and 2.50).
C22_OddsConversions ==
    (Converted /\ conv.odds # 0) =>
        LET o == conv.odds
            a == Abs(o)
        IN  /\ o > 0 => /\ EqF(conv.implied, Frac(100, o + 100))
                        /\ EqF(conv.implied_prob, Frac(100, o + 100))
                        /\ EqF(conv.decimal, Frac(100 + o, 100))
            /\ o < 0 => /\ EqF(conv.implied, Frac(a, a + 100))
                        /\ EqF(conv.implied_prob, Frac(a, a + 100))
                        /\ EqF(conv.decimal, Frac(a + 100, a))
            /\ o = -150 => /\ EqF(conv.implied, Frac(60, 100))
                           /\ Within001(conv.decimal, Frac(1667, 1000))
            /\ o = 150 => /\ EqF(conv.implied, Frac(40, 100))
                          /\ EqF(conv.decimal, Frac(250, 100))
\* the favourite of the example
C22_Witness ==
    /\ Converted /\ conv.odds = -150
    /\ conv.implied = Frac(3, 5) /\ conv.decimal = Frac(5, 3)

(***************************************************************************)
(* Properties of the calibration table.                                    *)
(***************************************************************************)
BinsReturned == bins # <<>> /\ bins.status = "returned"

\* C23: _calibration_bins with n_bins equal-width buckets over [0,1]
\* assigns every prediction in [0,1] to exactly one bucket, so the
\* per-bucket counts sum to the number of predictions; with 10 bins the
\* predictions 0.05, 0.15, ..., 0.95 fall into ten distinct buckets with
\* count 1 each.
C23_EveryPredictionInOneBucket ==
    BinsReturned =>
        /\ SumSeq([j \in DOMAIN bins.grouped |-> bins.grouped[j].count])
              = Len(bins.y_prob)
        /\ \A j, k \in DOMAIN bins.grouped :
              j # k => bins.grouped[j].bin # bins.grouped[k].bin
        /\ (bins.y_prob = MidPoints /\ bins.n_bins = 10) =>
              /\ Len(bins.grouped) = 10
              /\ \A j \in DOMAIN bins.grouped :
                    bins.grouped[j].count = 1 /\ bins.grouped[j].bin = j
\* the ten predictions of the example in ten buckets
C23_Witness ==
    /\ BinsReturned /\ bins.y_prob = MidPoints /\ bins.n_bins = 10
    /\ Len(bins.grouped) = 10

(***************************************************************************)
(* Properties of the two prediction paths taken together.                  *)
(***************************************************************************)
\* a pick of either table: the game, the predicted winner, the confidence
PickOf(r) ==
    <<r.season, r.week, r.home_team, r.away_team, r.predicted_winner,
      r.confidence>>
PicksOf(t) == {PickOf(t[i]) : i \in DOMAIN t}

\* C24: for the same season, week, dataset and model artifact, the per-game
\* picks returned by POST /predict (compute_week_picks) equal the picks of
\* the Prediction CLI: the same set of games, and for every game the same
\* predicted winner and the same confidence value.
C24_ApiPicksEqualCliPicks ==
    (request # <<>> /\ request.path = "both" /\ cli # NoRun /\ api # NoRun) =>
        /\ cli.status = api.status
        /\ PicksOf(cli.out) = PicksOf(api.out)

(***************************************************************************)
(* Properties of the Betting Simulation CLI.                               *)
(***************************************************************************)
\* C25: the max drawdown, and the cumulative-profit sequence it is taken
\* from, is computed over the qualifying bets in chronological order: of any
\* two bets, the one with the earlier game date precedes the other in the
\* sequence handed to max_drawdown.
C25_DrawdownInDateOrder ==
    (betrun # <<>> /\ betrun.status = "returned") =>
        \A i, j \in DOMAIN betrun.handed :
            betrun.handed[i].gameday < betrun.handed[j].gameday => i < j

(***************************************************************************)
(* Properties of the tuning paths.                                         *)
(***************************************************************************)
\* C26: explicit params passed to build_ensemble take precedence over the
\* persisted best parameters: the ensemble is the one built from the params
\* alone, as if no best_params.json existed.  In particular
\* build_ensemble(params={}) builds the default estimators with no weights
\* and sets nothing from best_params.json.
C26_ExplicitParamsTakePrecedence ==
    (ensemble # <<>> /\ ensemble.fn = "build_ensemble"
                     /\ ~ensemble.params.none) =>
        \E xgb \in BOOLEAN :
            ensemble.voter = build_ensemble(ensemble.params, NoDict, xgb)

\* C27: on every path that fits a voting ensemble (Training CLI, Backtest
\* CLI, legacy evaluation, a tuning trial after set_params) the weights of
\* the ensemble handed to fit are absent or a vector with one entry per base
\* estimator, with or without the gradient-boosted estimator.
C27_WeightsMatchEstimators ==
    (trial # <<>> /\ trial.status # "idle") =>
        \/ trial.m.weights.null
        \/ Len(trial.m.weights.w) = Len(trial.m.estimators)

(***************************************************************************)
(* Properties of the team-side rows inside the Dataset Builder.            *)
(***************************************************************************)
\* the team-side rows of the build that returned
TeamSide == team_side_rows(Source, call.seasons)

\* C28: for every team-side row the Elo pass processes, rows of tied games
\* and of games without final scores included, the win indicator of the Elo
\* update equals team_win of the same team's row for that game in the
\* returned dataset.
C28_EloWinIsTeamWin ==
    Returned =>
        \A i \in DOMAIN TeamSide : \A j \in DOMAIN call.rows :
            LET e == TeamSide[i]
                r == call.rows[j]
            IN  (r.game_id = e.game_id /\ (r.home = 1 <=> e.home_away = "HOME"))
                    => elo_win(e) = r.team_win

\* C29: after the deduplication step every (game id, team) row of a game
\* with final scores has points_for equal to the team's score and
\* points_against equal to the opponent's score in the schedule, however
\* many rows a side-table file holds for the game's key.
C29_DedupKeepsScores ==
    Returned =>
        \A i \in DOMAIN TeamSide :
            LET e == TeamSide[i]
                g == schedules[e.game_id]
                home == e.home_away = "HOME"
            IN  Played(e.game_id) =>
                   /\ e.points_for =
                         IF home THEN g.home_score ELSE g.away_score
                   /\ e.points_against =
                         IF home THEN g.away_score ELSE g.home_score

(***************************************************************************)
(* Properties of a backtest fold.                                          *)
(***************************************************************************)
\* C30: the accuracy backtest reports for a season is the fraction of the
\* season's games in which the selected (higher-probability) side actually
\* won, whatever probabilities the model gives a game's two rows, also when
\* both are below 0.5.
C30_AccuracyIsShareOfWinningPicks ==
    (scored # <<>> /\ scored.status = "scored") =>
        EqF(scored.metrics.accuracy,
            Frac(Cardinality({i \in DOMAIN scored.best :
                                 scored.best[i].team_win = 1}),
                 Len(scored.best)))

====
